---- MODULE Spec2Model ----
(***************************************************************************)
(* The static-lighting build orchestrator of                               *)
(* Engine/Source/Editor/UnrealEd/Private/StaticLightingSystem/             *)
(* StaticLightingSystem.cpp: FStaticLightingManager (the process-wide      *)
(* singleton that owns at most one FStaticLightingSystem) and the build    *)
(* state machine of FStaticLightingSystem, driven by the editor's entry    *)
(* points BuildLighting, UpdateBuildLighting (the tick), CancelLightingBuild*)
(* and ProcessLightingData (apply / discard).                              *)
(*                                                                         *)
(* Every handler is a function from the program state (a record) and the   *)
(* inputs the handler reads from its collaborators to the program state    *)
(* after the handler returned; the actions at the end apply one handler    *)
(* each.                                                                   *)
(***************************************************************************)
EXTENDS Integers, Sequences, FiniteSets, TLC

\* ------------------------------------------------------------------ bounds
\* The number of BuildLighting requests of one run.
MaxRequests == 2
\* The number of actors of the persistent level.
NumActors == 2
\* The number of node groups of the level's BSP model.
NumNodeGroups == 2
\* The number of surfaces of the BSP model whose selection is expanded.
NumSurfs == 4
\* The number of model components its nodes are spread over.
NumModelComponents == 3

\* ------------------------------------------------------------------ values
\* A null pointer; an object is named by a positive number.
NULL == 0

Actors == 1 .. NumActors

\* World->GetLevel(LevelIndex): the persistent level, which holds the BSP
\* model and all actors but the last, and one streaming level (visible in
\* the editor), which holds the last actor and no BSP.
PersistentLevel == 1
StreamingLevel == 2
Levels == {PersistentLevel, StreamingLevel}

\* The level an actor is in.
ActorLevel(a) == IF a = NumActors THEN StreamingLevel ELSE PersistentLevel

\* Level->ModelComponents: the components the nodes of the BSP model belong to.
ModelComponents == 1 .. NumNodeGroups

\* INDEX_NONE: an unassigned visibility id / deterministic index.
INDEX_NONE == -1

\* The lighting of the live scene: "Prior" (the lighting the level was loaded
\* with), "Invalidated" (cleared, nothing new applied) or "Built" (the results
\* of a build were applied).
SceneLightingStates == {"Prior", "Invalidated", "Built"}

VARIABLES
    StaticLightingSystem,   \* FStaticLightingManager::StaticLightingSystem: NULL or a system
    liveSystems,            \* the FStaticLightingSystem objects constructed and not deleted
    numCreated,             \* how many systems were constructed so far (names the next one)
    CurrentBuildStage,      \* field of the live system ("NotRunning" when there is none)
    Options,                \* field of the live system: FLightingBuildOptions
    Lights,                 \* field: the lights gathered for the build
    Meshes,                 \* field: the gathered FStaticLightingMesh records
    Mappings,               \* field: the gathered FStaticLightingMapping records
    DeterministicIndex,     \* field: the next deterministic index
    NextVisibilityId,       \* field: the next visibility id
    LightmassProcessor,     \* field: NULL or the system's FLightmassProcessor
    LightBuildNotification, \* FStaticLightingManager::LightBuildNotification
    MapBuildCancelled,      \* GEditor's map-build-cancelled flag
    swarmJob,               \* the remote job of the latest system: "NoJob", "Open", "Closed"
    closeJobCalls,          \* calls of CloseJob made for the latest system
    sceneLighting,          \* the lighting of the live scene (see SceneLightingStates)
    numInvalidations,       \* runs of InvalidateStaticLighting by the latest system
    numWorldCommits,        \* runs of the commit sequence of ApplyNewLightingData by it
    tempElements,           \* imported results waiting in the model components' temp elements
    numFinishRuns,          \* runs of FinishLightmassProcess by the latest system
    Selected,               \* the actors currently selected in the editor
    alreadyRunningNotices,  \* "A lighting build is already in progress!" notifications shown
    buildStartedBroadcasts, \* FEditorDelegates::OnLightingBuildStarted broadcasts
    wroteAfterDelete,       \* a field of a deleted system was written
    cancelStage,            \* the stage in which the latest system was cancelled, or "None"
    bSortMappings,          \* GLightmassDebugOptions.bSortMappings
    PrimitiveTexels,        \* per actor: the texel counts of the mappings of its primitive
    NodeGroups,             \* Model->NodeGroups: the node groups of the level's BSP model
    UnSortedMappings,       \* field: the mappings gathered and not yet sorted
    bBuildCanceled,         \* field of the live system
    VisibilityId,           \* per actor: UPrimitiveComponent::VisibilityId of its primitive
    ModelVisibilityId,      \* per model component: its VisibilityId
    bStaticLightingBuildEnqueued, \* the actors whose components carry the flag
    levelDirty,             \* per level: its package was marked dirty
    generatedAreaLights,    \* AGeneratedMeshAreaLight actors exist in the world
    CachedMappings,         \* Model->CachedMappings: the node groups with a cached mapping
    NumIncompleteNodeGroups, \* Model->NumIncompleteNodeGroups
    finishLog,              \* the calls of the latest FinishLightmassProcess, in order, each with the stage it ran in
    lightingCacheInvalidated, \* the actors whose primitive the latest PostInvalidateStaticLighting invalidated
    bCrashTrackingEnabled,  \* the crash tracker module is capturing
    bCrashTrackerOriginallyEnabled, \* the system's field of that name
    outcomeNotifications,   \* build-done and failure notifications shown for the latest system
    Dialogs,                \* the modal dialogs shown for the latest system
    bNothingSelectedError,  \* the "nothing selected" error is on the latest results page
    ShouldBuildLightingForLevel, \* per level: Options.ShouldBuildLightingForLevel(Level)
    SkippedLevels,          \* the levels named in the skipped-levels warning of the latest build
    Model,                  \* Level->Model: Nodes (iSurf, ComponentIndex) and Surfs
    SelectedBrushes,        \* the brush actors that are selected in the editor
    SelectedSurfaceIndices, \* local of GatherStaticLightingInfo, as the expansion left it
    SelectedModelComponents,\* local of GatherStaticLightingInfo, as the expansion left it
    lastGather,             \* the latest build that passed startup: its options and GUIDs
    lastCall,               \* the entry point that ran last
    lastIn                  \* the inputs it read from its collaborators

vars == <<StaticLightingSystem, liveSystems, numCreated, CurrentBuildStage, Options,
          Lights, Meshes, Mappings, DeterministicIndex, NextVisibilityId,
          LightmassProcessor, LightBuildNotification, MapBuildCancelled, swarmJob,
          closeJobCalls, sceneLighting, numInvalidations, numWorldCommits,
          tempElements, numFinishRuns, Selected, alreadyRunningNotices,
          buildStartedBroadcasts, wroteAfterDelete, cancelStage, bSortMappings,
          PrimitiveTexels, NodeGroups, UnSortedMappings, bBuildCanceled, VisibilityId,
          ModelVisibilityId, bStaticLightingBuildEnqueued, levelDirty,
          generatedAreaLights, CachedMappings, NumIncompleteNodeGroups,
          finishLog, lightingCacheInvalidated, bCrashTrackingEnabled,
          bCrashTrackerOriginallyEnabled, outcomeNotifications, Dialogs,
          bNothingSelectedError, ShouldBuildLightingForLevel, SkippedLevels,
          Model, SelectedBrushes, SelectedSurfaceIndices,
          SelectedModelComponents, lastGather, lastCall, lastIn>>

\* The BSP model whose selected surfaces are expanded, and the expansion.
selectionVars ==
    <<Model, SelectedBrushes, SelectedSurfaceIndices, SelectedModelComponents>>

\* What no handler writes: the debug option and the geometry of the level.
sceneInputs ==
    <<Selected, bSortMappings, PrimitiveTexels, NodeGroups, ShouldBuildLightingForLevel>>

\* The program state as one record, the argument and the result of every handler.
State ==
    [sys |-> StaticLightingSystem, live |-> liveSystems, created |-> numCreated,
     stage |-> CurrentBuildStage, opts |-> Options, lights |-> Lights,
     meshes |-> Meshes, mappings |-> Mappings, detIndex |-> DeterministicIndex,
     nextVisId |-> NextVisibilityId, proc |-> LightmassProcessor,
     notif |-> LightBuildNotification, cancelled |-> MapBuildCancelled,
     job |-> swarmJob, closes |-> closeJobCalls, lighting |-> sceneLighting,
     invalidations |-> numInvalidations, commits |-> numWorldCommits,
     temp |-> tempElements, finishes |-> numFinishRuns, selected |-> Selected,
     notices |-> alreadyRunningNotices, started |-> buildStartedBroadcasts,
     stale |-> wroteAfterDelete, cancelStage |-> cancelStage,
     sort |-> bSortMappings, texels |-> PrimitiveTexels, groups |-> NodeGroups,
     unsorted |-> UnSortedMappings, buildCanceled |-> bBuildCanceled,
     visId |-> VisibilityId, modelVisId |-> ModelVisibilityId,
     enqueued |-> bStaticLightingBuildEnqueued, dirty |-> levelDirty,
     areaLights |-> generatedAreaLights, cached |-> CachedMappings,
     incomplete |-> NumIncompleteNodeGroups,
     log |-> finishLog, postInvalidated |-> lightingCacheInvalidated,
     crash |-> bCrashTrackingEnabled, crashOrig |-> bCrashTrackerOriginallyEnabled,
     outcomes |-> outcomeNotifications, dialogs |-> Dialogs,
     nothingSelected |-> bNothingSelectedError,
     buildLevel |-> ShouldBuildLightingForLevel, skipped |-> SkippedLevels]

\* The program state after a handler: r is the record the handler returned.
Becomes(r) ==
    /\ StaticLightingSystem' = r.sys
    /\ liveSystems' = r.live
    /\ numCreated' = r.created
    /\ CurrentBuildStage' = r.stage
    /\ Options' = r.opts
    /\ Lights' = r.lights
    /\ Meshes' = r.meshes
    /\ Mappings' = r.mappings
    /\ DeterministicIndex' = r.detIndex
    /\ NextVisibilityId' = r.nextVisId
    /\ LightmassProcessor' = r.proc
    /\ LightBuildNotification' = r.notif
    /\ MapBuildCancelled' = r.cancelled
    /\ swarmJob' = r.job
    /\ closeJobCalls' = r.closes
    /\ sceneLighting' = r.lighting
    /\ numInvalidations' = r.invalidations
    /\ numWorldCommits' = r.commits
    /\ tempElements' = r.temp
    /\ numFinishRuns' = r.finishes
    /\ Selected' = r.selected
    /\ alreadyRunningNotices' = r.notices
    /\ buildStartedBroadcasts' = r.started
    /\ wroteAfterDelete' = r.stale
    /\ cancelStage' = r.cancelStage
    /\ bSortMappings' = r.sort
    /\ PrimitiveTexels' = r.texels
    /\ NodeGroups' = r.groups
    /\ UnSortedMappings' = r.unsorted
    /\ bBuildCanceled' = r.buildCanceled
    /\ VisibilityId' = r.visId
    /\ ModelVisibilityId' = r.modelVisId
    /\ bStaticLightingBuildEnqueued' = r.enqueued
    /\ levelDirty' = r.dirty
    /\ generatedAreaLights' = r.areaLights
    /\ CachedMappings' = r.cached
    /\ NumIncompleteNodeGroups' = r.incomplete
    /\ finishLog' = r.log
    /\ lightingCacheInvalidated' = r.postInvalidated
    /\ bCrashTrackingEnabled' = r.crash
    /\ bCrashTrackerOriginallyEnabled' = r.crashOrig
    /\ outcomeNotifications' = r.outcomes
    /\ Dialogs' = r.dialogs
    /\ bNothingSelectedError' = r.nothingSelected
    /\ ShouldBuildLightingForLevel' = r.buildLevel
    /\ SkippedLevels' = r.skipped

\* ------------------------------------------------------------------ inputs
\* What one call reads from the world, the editor and the remote service. A
\* call records the inputs it was given in lastIn.
NoOptions == [bOnlyBuildSelected |-> FALSE, bOnlyBuildVisibility |-> FALSE]

NoInput ==
    [opts |-> NoOptions,
     bForceNoPrecomputedLighting |-> FALSE, \* world setting / r.AllowStaticLighting
     bPrecomputeVisibility |-> FALSE,       \* world setting
     bSwarmConnectionValid |-> FALSE,       \* IsSwarmConnectionIsValid()
     bOpenJob |-> FALSE,                    \* OpenJob()
     bExportCompleted |-> FALSE,            \* ExecuteAmortizedMaterialExport()
     bBeginRun |-> FALSE,                   \* BeginRun()
     bTasksFinished |-> FALSE,              \* the remote tasks have all completed
     bTasksSucceeded |-> FALSE,             \* and none of them failed
     bCompleteRun |-> FALSE,                \* CompleteRun()
     bCloseJob |-> FALSE,                   \* CloseJob()
     bAutoApplyLightingEnable |-> FALSE,    \* ULevelEditorMiscSettings
     bSlowTask |-> FALSE,                   \* GIsSlowTask
     bInterpEditMode |-> FALSE,             \* EM_InterpEdit is active
     bPlayWorldValid |-> FALSE,             \* GUnrealEd->PlayWorld != nullptr
     bAnyMenusVisible |-> FALSE,            \* FSlateApplication::AnyMenusVisible()
     bIsDemoMode |-> FALSE,                 \* GIsDemoMode
     bHasGameOrProjectLoaded |-> FALSE]     \* FApp::HasGameName()

OptionsSet == [bOnlyBuildSelected : BOOLEAN, bOnlyBuildVisibility : BOOLEAN]

\* The inputs of a build request.
BuildInputs ==
    { [NoInput EXCEPT !.opts = o, !.bForceNoPrecomputedLighting = f,
                      !.bPrecomputeVisibility = p, !.bSwarmConnectionValid = c,
                      !.bOpenJob = j]
        : o \in OptionsSet, f \in BOOLEAN, p \in BOOLEAN, c \in BOOLEAN, j \in BOOLEAN }

\* The inputs of the automatic-apply gate.
GateInputs ==
    { [NoInput EXCEPT !.bAutoApplyLightingEnable = a, !.bSlowTask = s,
                      !.bInterpEditMode = i, !.bPlayWorldValid = p,
                      !.bAnyMenusVisible = m, !.bIsDemoMode = d,
                      !.bHasGameOrProjectLoaded = g]
        : a \in BOOLEAN, s \in BOOLEAN, i \in BOOLEAN, p \in BOOLEAN,
          m \in BOOLEAN, d \in BOOLEAN, g \in BOOLEAN }

\* The inputs of a finalization: the remote client's answers.
FinishInputs ==
    { [NoInput EXCEPT !.bCompleteRun = c, !.bCloseJob = j]
        : c \in BOOLEAN, j \in BOOLEAN }

\* The inputs of a build request that reaches the remote service, in a world
\* that precomputes visibility.
GatherInputs ==
    { in \in BuildInputs :
        in.bSwarmConnectionValid /\ in.bOpenJob /\ in.bPrecomputeVisibility }

\* A node group of the level's BSP model: the model component of each of
\* its nodes, the texel count of its mapping, and whether one of its nodes
\* lies on a selected surface (a surface that is selected or belongs to a
\* selected brush, or that the expansion of lines 807-876 reaches).
NodeGroup(Nodes, NumTexels, bSelected) ==
    [Nodes |-> Nodes, NumTexels |-> NumTexels, bSelected |-> bSelected]

\* The node groups of the gather runs: one without nodes, one of a single
\* component on a selected surface, one that spans two components.
NodeGroupKinds ==
    { NodeGroup(<<>>, 1, FALSE),
      NodeGroup(<<1>>, 2, TRUE),
      NodeGroup(<<1, NumNodeGroups>>, 1, FALSE) }

\* The primitives of the gather runs, each by the texel counts of its
\* mappings: no mesh, one mesh, two meshes in ascending order of texels.
PrimitiveInfos == { <<>>, <<2>>, <<1, 2>> }

\* No build has passed startup yet.
NoGather == [valid |-> FALSE, opts |-> NoOptions, guids |-> <<>>]

\* FStaticLightingSystem::CanAutoApplyLighting, on the inputs it reads
\* (bIsInteratcting is the constant false in the source).
CanAutoApplyLighting_NoSlowTask(in) ==
    /\ in.bAutoApplyLightingEnable
    /\ ~in.bInterpEditMode
    /\ ~in.bPlayWorldValid
    /\ ~in.bAnyMenusVisible
    /\ ~FALSE
    /\ ~in.bIsDemoMode
    /\ in.bHasGameOrProjectLoaded

CanAutoApplyLighting(in) ==
    /\ in.bAutoApplyLightingEnable
    /\ ~in.bSlowTask
    /\ ~in.bInterpEditMode
    /\ ~in.bPlayWorldValid
    /\ ~in.bAnyMenusVisible
    /\ ~FALSE
    /\ ~in.bIsDemoMode
    /\ in.bHasGameOrProjectLoaded

\* The automatic-apply gate is open and a finalization would succeed.
GateOpen ==
    [NoInput EXCEPT !.bAutoApplyLightingEnable = TRUE,
                    !.bHasGameOrProjectLoaded = TRUE,
                    !.bCompleteRun = TRUE, !.bCloseJob = TRUE]

\* The inputs of one tick in a stage: the remote client's answer to the call
\* that stage makes; for the automatic apply the gate's inputs and, when the
\* gate lets the apply run, the finalization's inputs (an input the call does
\* not read keeps its default). While the build waits for the user the gate
\* is closed or open.
TickInputs(stage) ==
    CASE stage = "AmortizedExport" ->
            { [NoInput EXCEPT !.bExportCompleted = e] : e \in BOOLEAN }
      [] stage = "SwarmKickoff" ->
            { [NoInput EXCEPT !.bBeginRun = b] : b \in BOOLEAN }
      [] stage = "AsynchronousBuilding" ->
            { [NoInput EXCEPT !.bTasksFinished = t, !.bTasksSucceeded = s]
                : t \in BOOLEAN, s \in BOOLEAN }
      [] stage = "AutoApplyingImport" ->
            UNION { { [g EXCEPT !.bCompleteRun = f.bCompleteRun,
                                 !.bCloseJob = f.bCloseJob]
                        : f \in IF CanAutoApplyLighting(g)
                                THEN FinishInputs ELSE {NoInput} }
                    : g \in GateInputs }
      [] stage = "WaitingForImport" -> {NoInput, GateOpen}
      [] OTHER -> {NoInput}

\* ------------------------------------------------------------------ stages
\* FStaticLightingSystem::LightingStage, in the order of its declaration.
LightingStage ==
    <<"NotRunning", "Startup", "AmortizedExport", "SwarmKickoff",
      "AsynchronousBuilding", "AutoApplyingImport", "WaitingForImport", "Import">>

StageRank(stage) == CHOOSE i \in 1 .. Len(LightingStage) : LightingStage[i] = stage

\* ------------------------------------------------------------------ notifications
Notification(kind, text, state) == [kind |-> kind, text |-> text, state |-> state]

\* LightBuildNotification when it is reset (not valid).
NoNotification == Notification("None", "", "CS_None")

IsValid(notification) == notification.kind # "None"

\* FStaticLightingManager::SendProgressNotification
SendProgressNotification(s) ==
    [s EXCEPT !.notif = Notification("Progress", "Building lighting", "CS_Pending")]

\* FStaticLightingManager::ClearCurrentNotification
ClearCurrentNotification(s) ==
    IF IsValid(s.notif) THEN [s EXCEPT !.notif = NoNotification] ELSE s

\* FStaticLightingManager::SetNotificationText
SetNotificationText(s, text) ==
    IF IsValid(s.notif) THEN [s EXCEPT !.notif.text = text] ELSE s

\* FStaticLightingManager::SendBuildDoneNotification: the notification with
\* the Apply Now and Discard buttons.
SendBuildDoneNotification(s, AutoApplyFailed) ==
    [s EXCEPT !.notif = Notification("BuildDone", "Lighting build completed",
                            IF AutoApplyFailed THEN "CS_Pending" ELSE "CS_Success"),
              !.outcomes = s.outcomes + 1]

\* ------------------------------------------------------------------ the system
\* ICrashTrackerModule::SetCrashTrackingEnabled, as the system calls it: the
\* module captures exactly while it is enabled.
SetCrashTrackingEnabled(s, bEnabled) ==
    [s EXCEPT !.crash = bEnabled]

\* The block of InitiateLightmassProcessor that follows the opening of the
\* job: the module's state is remembered and the capture is stopped.
DisableCrashTracker(s) ==
    SetCrashTrackingEnabled([s EXCEPT !.crashOrig = s.crash], FALSE)

\* The block shared by the destructor and by the tick on which the export
\* completes: a capture the system stopped is started again, once.
RestoreCrashTracker(s) ==
    IF s.crashOrig
    THEN [SetCrashTrackingEnabled(s, TRUE) EXCEPT !.crashOrig = FALSE]
    ELSE s

\* The fields of the manager's system when there is none.
NoSystemFields(s) ==
    [s EXCEPT !.stage = "NotRunning", !.opts = NoOptions, !.lights = <<>>,
              !.meshes = <<>>, !.mappings = <<>>, !.detIndex = 0, !.nextVisId = 0,
              !.proc = NULL, !.unsorted = <<>>, !.buildCanceled = FALSE]

\* FStaticLightingSystem::FStaticLightingSystem: a new object with its
\* fields at their constructed values; the result names it in .sys.
NewStaticLightingSystem_KeepsDeterministicIndex(s, InOptions) ==
    [NoSystemFields(s) EXCEPT
        !.sys = s.created + 1, !.live = s.live \cup {s.created + 1},
        !.created = s.created + 1, !.opts = InOptions,
        !.detIndex = s.created,
        !.job = "NoJob", !.closes = 0, !.cancelStage = "None",
        !.invalidations = 0, !.commits = 0, !.finishes = 0,
        !.outcomes = 0, !.dialogs = {}, !.crashOrig = FALSE]

NewStaticLightingSystem(s, InOptions) ==
    [NoSystemFields(s) EXCEPT
        !.sys = s.created + 1, !.live = s.live \cup {s.created + 1},
        !.created = s.created + 1, !.opts = InOptions,
        !.job = "NoJob", !.closes = 0, !.cancelStage = "None",
        !.invalidations = 0, !.commits = 0, !.finishes = 0,
        !.outcomes = 0, !.dialogs = {}, !.crashOrig = FALSE]

\* FStaticLightingSystem::~FStaticLightingSystem of the system the manager
\* points at: the processor is deleted with it.
DeleteStaticLightingSystem_LeavesCrashTrackerOff(s) ==
    [NoSystemFields(s) EXCEPT !.live = s.live \ {s.sys}, !.crashOrig = FALSE]

DeleteStaticLightingSystem(s) ==
    [NoSystemFields(RestoreCrashTracker(s)) EXCEPT !.live = s.live \ {s.sys}]

\* FStaticLightingManager::DestroyStaticLightingSystem
DestroyStaticLightingSystem(s) ==
    IF s.sys # NULL
    THEN [DeleteStaticLightingSystem(s) EXCEPT !.sys = NULL]
    ELSE s

\* FStaticLightingManager::FailLightingBuild
FailLightingBuild(s, ErrorText) ==
    LET s1 == ClearCurrentNotification(s)
        text == IF s1.cancelled THEN "Lighting build canceled."
                ELSE IF ErrorText = "" THEN "Lighting build failed."
                ELSE ErrorText
        s2 == [s1 EXCEPT !.notif = Notification("Fail", text, "CS_Fail"),
                         !.outcomes = s1.outcomes + 1]
    IN DestroyStaticLightingSystem(s2)

\* FStaticLightingSystem::IsAsyncBuilding
IsAsyncBuilding_IncludesExport(s) ==
    s.stage \in {"AmortizedExport", "AsynchronousBuilding"}

IsAsyncBuilding(s) == s.stage = "AsynchronousBuilding"

\* ------------------------------------------------------------------ remote client
\* FLightmassProcessor (Lightmass.cpp), the client of the remote build
\* service, as the orchestrator sees it.

\* FLightmassProcessor::OpenJob: opens the remote job, or fails.
OpenJob(s, in) ==
    IF in.bOpenJob THEN [s EXCEPT !.job = "Open"] ELSE s

\* FLightmassProcessor::CloseJob: releases the remote job.
CloseJob(s) ==
    [s EXCEPT !.job = "Closed", !.closes = s.closes + 1]

\* FLightmassProcessor::Update: the poll. It reports finished when every
\* remote task has completed, and also once the map build was cancelled
\* (the client unwinds and stops waiting).
ProcessorUpdate(s, in) == in.bTasksFinished \/ s.cancelled

\* FLightmassProcessor::IsProcessingCompletedSuccessfully
IsProcessingCompletedSuccessfully(s, in) ==
    in.bTasksFinished /\ in.bTasksSucceeded /\ ~s.cancelled

\* ------------------------------------------------------------------ gather
\* The lights of the world that have static shadowing or static lighting.
WorldLights == <<"Light">>

\* A gathered FStaticLightingMesh is a record of the component it came from,
\* the visibility ids it carries and the last word of its GUID (INDEX_NONE
\* while no deterministic index was assigned to it). A gathered
\* FStaticLightingMapping is a record of its mesh (an index into Meshes),
\* bProcessMapping and its texel count.

\* FStaticLightingSystem::AddPrimitiveStaticLightingInfo. PrimitiveInfo holds
\* as many meshes as mappings (the check of line 1609), one per texel count.
AddPrimitiveStaticLightingInfo_TagsEveryMesh(s, PrimitiveInfo, bBuildActorLighting) ==
    LET n == Len(PrimitiveInfo.Texels)
        NewMeshes == [i \in 1 .. n |->
            [Component |-> PrimitiveInfo.Component,
             VisibilityIds |-> <<PrimitiveInfo.VisibilityId>>,
             Guid |-> IF ~s.sort THEN s.detIndex + i - 1 ELSE INDEX_NONE]]
        NewMappings == [i \in 1 .. n |->
            [Mesh |-> Len(s.meshes) + i,
             bProcessMapping |-> bBuildActorLighting,
             NumTexels |-> PrimitiveInfo.Texels[i]]]
    IN [s EXCEPT !.meshes = s.meshes \o NewMeshes,
                 !.detIndex = IF ~s.sort THEN s.detIndex + n ELSE s.detIndex,
                 !.unsorted = IF s.sort THEN s.unsorted \o NewMappings ELSE s.unsorted,
                 !.mappings = IF s.sort THEN s.mappings ELSE s.mappings \o NewMappings]

AddPrimitiveStaticLightingInfo_ProcessesEveryMapping(s, PrimitiveInfo, bBuildActorLighting) ==
    LET n == Len(PrimitiveInfo.Texels)
        bTag == ~s.sort
        NewMeshes == [i \in 1 .. n |->
            [Component |-> PrimitiveInfo.Component,
             VisibilityIds |-> <<PrimitiveInfo.VisibilityId>>,
             Guid |-> IF bTag THEN s.detIndex + i - 1 ELSE INDEX_NONE]]
        NewMappings == [i \in 1 .. n |->
            [Mesh |-> Len(s.meshes) + i,
             bProcessMapping |-> TRUE,
             NumTexels |-> PrimitiveInfo.Texels[i]]]
    IN [s EXCEPT !.meshes = s.meshes \o NewMeshes,
                 !.detIndex = IF bTag THEN s.detIndex + n ELSE s.detIndex,
                 !.unsorted = IF s.sort THEN s.unsorted \o NewMappings ELSE s.unsorted,
                 !.mappings = IF s.sort THEN s.mappings ELSE s.mappings \o NewMappings]

AddPrimitiveStaticLightingInfo(s, PrimitiveInfo, bBuildActorLighting) ==
    LET n == Len(PrimitiveInfo.Texels)
        bTag == ~s.sort /\ bBuildActorLighting
        NewMeshes == [i \in 1 .. n |->
            [Component |-> PrimitiveInfo.Component,
             VisibilityIds |-> <<PrimitiveInfo.VisibilityId>>,
             Guid |-> IF bTag THEN s.detIndex + i - 1 ELSE INDEX_NONE]]
        NewMappings == [i \in 1 .. n |->
            [Mesh |-> Len(s.meshes) + i,
             bProcessMapping |-> bBuildActorLighting,
             NumTexels |-> PrimitiveInfo.Texels[i]]]
    IN [s EXCEPT !.meshes = s.meshes \o NewMeshes,
                 !.detIndex = IF bTag THEN s.detIndex + n ELSE s.detIndex,
                 !.unsorted = IF s.sort THEN s.unsorted \o NewMappings ELSE s.unsorted,
                 !.mappings = IF s.sort THEN s.mappings ELSE s.mappings \o NewMappings]

\* TArray::AddUnique
AddUnique(Array, Item) ==
    IF \E i \in 1 .. Len(Array) : Array[i] = Item THEN Array ELSE Append(Array, Item)

RECURSIVE AssignModelVisibilityIds_AlwaysAssigns(_, _, _, _)
AssignModelVisibilityIds_AlwaysAssigns(s, Nodes, NodeIndex, in) ==
    IF NodeIndex > Len(Nodes) THEN s
    ELSE LET Component == Nodes[NodeIndex]
             s1 == [s EXCEPT !.modelVisId[Component] = s.nextVisId,
                             !.nextVisId = s.nextVisId + 1,
                             !.dirty[PersistentLevel] =
                                 s.dirty[PersistentLevel] \/ in.bPrecomputeVisibility]
         IN AssignModelVisibilityIds_AlwaysAssigns(s1, Nodes, NodeIndex + 1, in)

\* The loop over a node group's nodes (lines 1363-1419) from node NodeIndex
\* on: a model component that has no visibility id gets the next one. Nodes
\* holds the component of every node of the group.
RECURSIVE AssignModelVisibilityIds(_, _, _, _)
AssignModelVisibilityIds(s, Nodes, NodeIndex, in) ==
    IF NodeIndex > Len(Nodes) THEN s
    ELSE LET Component == Nodes[NodeIndex]
             s1 == IF s.modelVisId[Component] = INDEX_NONE
                   THEN [s EXCEPT !.modelVisId[Component] = s.nextVisId,
                                  !.nextVisId = s.nextVisId + 1,
                                  !.dirty[PersistentLevel] =
                                      s.dirty[PersistentLevel] \/ in.bPrecomputeVisibility]
                   ELSE s
         IN AssignModelVisibilityIds(s1, Nodes, NodeIndex + 1, in)

\* ComponentVisibilityIds of that loop after the first NodeIndex nodes.
RECURSIVE ComponentVisibilityIds(_, _, _)
ComponentVisibilityIds(s, Nodes, NodeIndex) ==
    IF NodeIndex = 0 THEN <<>>
    ELSE AddUnique(ComponentVisibilityIds(s, Nodes, NodeIndex - 1),
                   s.modelVisId[Nodes[NodeIndex]])

\* The FBSPSurfaceStaticLighting of one node group, which is its mesh and
\* its mapping (lines 1428-1468 and 1570-1600).
AddSurfaceStaticLighting_MeshOnly(s, GroupIndex, VisibilityIds, bBuildLightingForBSP) ==
    LET Mesh == [Component |-> <<"Model", GroupIndex>>,
                 VisibilityIds |-> VisibilityIds,
                 Guid |-> INDEX_NONE]
    IN [s EXCEPT !.meshes = Append(s.meshes, Mesh),
                 !.incomplete = s.incomplete + 1,
                 !.cached = Append(s.cached, GroupIndex)]

AddSurfaceStaticLighting(s, GroupIndex, VisibilityIds, bBuildLightingForBSP) ==
    LET bTag == ~s.sort /\ bBuildLightingForBSP
        Mesh == [Component |-> <<"Model", GroupIndex>>,
                 VisibilityIds |-> VisibilityIds,
                 Guid |-> IF bTag THEN s.detIndex ELSE INDEX_NONE]
        Mapping == [Mesh |-> Len(s.meshes) + 1,
                    bProcessMapping |-> bBuildLightingForBSP,
                    NumTexels |-> s.groups[GroupIndex].NumTexels]
    IN [s EXCEPT !.meshes = Append(s.meshes, Mesh),
                 !.detIndex = IF bTag THEN s.detIndex + 1 ELSE s.detIndex,
                 !.unsorted = IF s.sort THEN Append(s.unsorted, Mapping) ELSE s.unsorted,
                 !.mappings = IF s.sort THEN s.mappings ELSE Append(s.mappings, Mapping),
                 !.incomplete = s.incomplete + 1,
                 !.cached = Append(s.cached, GroupIndex)]

\* The loop over Model->NodeGroups of the whole-level
\* AddBSPStaticLightingInfo, from group GroupIndex on.
RECURSIVE AddAllNodeGroups(_, _, _, _)
AddAllNodeGroups(s, GroupIndex, bBuildLightingForBSP, in) ==
    IF GroupIndex > Len(s.groups) THEN s
    ELSE LET Nodes == s.groups[GroupIndex].Nodes
             s1 == AssignModelVisibilityIds(s, Nodes, 1, in)
             s2 == IF Len(Nodes) > 0
                   THEN AddSurfaceStaticLighting(s1, GroupIndex,
                            ComponentVisibilityIds(s1, Nodes, Len(Nodes)),
                            bBuildLightingForBSP)
                   ELSE s
         IN AddAllNodeGroups(s2, GroupIndex + 1, bBuildLightingForBSP, in)

\* FStaticLightingSystem::AddBSPStaticLightingInfo(Level, bBuildLightingForBSP)
AddBSPStaticLightingInfo(s, bBuildLightingForBSP, in) ==
    AddAllNodeGroups([s EXCEPT !.incomplete = 0, !.cached = <<>>], 1, bBuildLightingForBSP, in)

\* The loop of AddBSPStaticLightingInfo(Level, NodeGroupsToBuild) from
\* NodeGroupIdx on.
RECURSIVE AddNodeGroupsToBuild(_, _, _)
AddNodeGroupsToBuild(s, NodeGroupsToBuild, NodeGroupIdx) ==
    IF NodeGroupIdx > Len(NodeGroupsToBuild) THEN s
    ELSE LET GroupIndex == NodeGroupsToBuild[NodeGroupIdx]
             s1 == IF Len(s.groups[GroupIndex].Nodes) > 0
                   THEN AddSurfaceStaticLighting(s, GroupIndex, <<>>, TRUE)
                   ELSE s
         IN AddNodeGroupsToBuild(s1, NodeGroupsToBuild, NodeGroupIdx + 1)

AddBSPStaticLightingInfoForNodeGroups_KeepsCache(s, NodeGroupsToBuild) ==
    AddNodeGroupsToBuild(s, NodeGroupsToBuild, 1)

\* FStaticLightingSystem::AddBSPStaticLightingInfo(Level, NodeGroupsToBuild)
AddBSPStaticLightingInfoForNodeGroups(s, NodeGroupsToBuild) ==
    AddNodeGroupsToBuild([s EXCEPT !.incomplete = 0, !.cached = <<>>], NodeGroupsToBuild, 1)

\* NodeGroupsToBuild of GatherStaticLightingInfo (lines 878-898), from group
\* GroupIndex on: the node groups that have nodes, one of them on a selected
\* surface (bSelected of the group).
RECURSIVE NodeGroupsToBuild(_, _)
NodeGroupsToBuild(s, GroupIndex) ==
    IF GroupIndex > Len(s.groups) THEN <<>>
    ELSE (IF Len(s.groups[GroupIndex].Nodes) > 0 /\ s.groups[GroupIndex].bSelected
          THEN <<GroupIndex>> ELSE <<>>)
         \o NodeGroupsToBuild(s, GroupIndex + 1)

\* FStaticLightingSystem::GatherStaticLightingInfo, the loop over the
\* level's actors from actor ActorIndex on: every actor owns one registered
\* primitive of static mobility.
RECURSIVE GatherActors_OnlyBuildEligible(_, _, _)
GatherActors_OnlyBuildEligible(s, ActorIndex, in) ==
    IF ActorIndex > NumActors THEN s
    ELSE LET bBuildActorLighting ==
                 /\ s.buildLevel[ActorLevel(ActorIndex)]
                 /\ ~s.opts.bOnlyBuildSelected \/ ActorIndex \in s.selected
             s0 == IF bBuildActorLighting /\ ~s.opts.bOnlyBuildVisibility
                   THEN [s EXCEPT !.enqueued = s.enqueued \cup {ActorIndex}]
                   ELSE s
             bHasMeshes == Len(s.texels[ActorIndex]) > 0
             PrimitiveInfo ==
                 [Component |-> <<"Primitive", ActorIndex>>,
                  Texels |-> s.texels[ActorIndex],
                  VisibilityId |-> IF bHasMeshes THEN s0.nextVisId ELSE INDEX_NONE]
             s1 == IF bHasMeshes
                   THEN [s0 EXCEPT !.visId[ActorIndex] = s0.nextVisId,
                                   !.nextVisId = s0.nextVisId + 1,
                                   !.dirty[ActorLevel(ActorIndex)] =
                                       s0.dirty[ActorLevel(ActorIndex)]
                                           \/ in.bPrecomputeVisibility]
                   ELSE s0
             s2 == IF ~in.bForceNoPrecomputedLighting /\ bBuildActorLighting
                   THEN AddPrimitiveStaticLightingInfo(s1, PrimitiveInfo,
                                                       bBuildActorLighting)
                   ELSE s0
         IN GatherActors_OnlyBuildEligible(s2, ActorIndex + 1, in)

RECURSIVE GatherActors(_, _, _)
GatherActors(s, ActorIndex, in) ==
    IF ActorIndex > NumActors THEN s
    ELSE LET bBuildActorLighting ==
                 /\ s.buildLevel[ActorLevel(ActorIndex)]
                 /\ ~s.opts.bOnlyBuildSelected \/ ActorIndex \in s.selected
             s0 == IF bBuildActorLighting /\ ~s.opts.bOnlyBuildVisibility
                   THEN [s EXCEPT !.enqueued = s.enqueued \cup {ActorIndex}]
                   ELSE s
             bHasMeshes == Len(s.texels[ActorIndex]) > 0
             PrimitiveInfo ==
                 [Component |-> <<"Primitive", ActorIndex>>,
                  Texels |-> s.texels[ActorIndex],
                  VisibilityId |-> IF bHasMeshes THEN s0.nextVisId ELSE INDEX_NONE]
             s1 == IF bHasMeshes
                   THEN [s0 EXCEPT !.visId[ActorIndex] = s0.nextVisId,
                                   !.nextVisId = s0.nextVisId + 1,
                                   !.dirty[ActorLevel(ActorIndex)] =
                                       s0.dirty[ActorLevel(ActorIndex)]
                                           \/ in.bPrecomputeVisibility]
                   ELSE s0
             s2 == IF ~in.bForceNoPrecomputedLighting
                   THEN AddPrimitiveStaticLightingInfo(s1, PrimitiveInfo,
                                                       bBuildActorLighting)
                   ELSE s0
         IN GatherActors(s2, ActorIndex + 1, in)

\* FStaticLightingSystem::GatherStaticLightingInfo: the BSP of the
\* persistent level, then the actors of the levels, level by level.
GatherStaticLightingInfo(s, in) ==
    LET bBuildLightingForLevel == s.buildLevel[PersistentLevel]
        bSelectedBSP == /\ bBuildLightingForLevel
                        /\ ~s.opts.bOnlyBuildVisibility /\ s.opts.bOnlyBuildSelected
        ToBuild == IF bSelectedBSP THEN NodeGroupsToBuild(s, 1) ELSE <<>>
        bBuildBSPLighting == IF bSelectedBSP THEN Len(ToBuild) > 0
                             ELSE bBuildLightingForLevel
        bWholeLevel == ~s.opts.bOnlyBuildSelected \/ s.opts.bOnlyBuildVisibility
        bAddBSP == bBuildBSPLighting /\ ~in.bForceNoPrecomputedLighting
        s1 == IF bAddBSP
              THEN IF bWholeLevel
                   THEN AddBSPStaticLightingInfo(s, bBuildBSPLighting, in)
                   ELSE AddBSPStaticLightingInfoForNodeGroups(s, ToBuild)
              ELSE s
        s2 == GatherActors(s1, 1, in)
        bObjectsToBuildLightingForFound ==
            \/ bAddBSP /\ ~bWholeLevel /\ Len(ToBuild) > 0
            \/ \E a \in Actors :
                    /\ s.buildLevel[ActorLevel(a)]
                    /\ ~s.opts.bOnlyBuildSelected \/ a \in s.selected
    IN [s2 EXCEPT !.nothingSelected =
                      s.opts.bOnlyBuildSelected /\ ~bObjectsToBuildLightingForFound]

\* ------------------------------------------------------------------ selected surfaces
\* The expansion of the selected surfaces in GatherStaticLightingInfo (lines
\* 807-876). sel is the pair of its locals: [Surfs |-> SelectedSurfaceIndices,
\* Components |-> SelectedModelComponents]. M is Level->Model; every entry of
\* Level->ModelComponents is a component.

\* Surf.PolyFlags has PF_Selected, or Surf.Actor is a selected brush.
SurfaceSelected(M, Brushes, SurfIdx) ==
    \/ M.Surfs[SurfIdx].bPF_Selected
    \/ M.Surfs[SurfIdx].Actor \in Brushes

\* UModelComponent::Nodes of component ComponentIndex: the indices of its
\* nodes in Model->Nodes.
RECURSIVE ComponentNodes(_, _, _)
ComponentNodes(M, ComponentIndex, NodeIdx) ==
    IF NodeIdx > Len(M.Nodes) THEN <<>>
    ELSE (IF M.Nodes[NodeIdx].ComponentIndex = ComponentIndex
          THEN <<NodeIdx>> ELSE <<>>)
         \o ComponentNodes(M, ComponentIndex, NodeIdx + 1)

\* The loop over the nodes of a component (lines 840-844, 867-871), from
\* InnerNodeIndex on.
RECURSIVE AddComponentSurfaces(_, _, _, _)
AddComponentSurfaces(sel, M, CompNodes, InnerNodeIndex) ==
    IF InnerNodeIndex > Len(CompNodes) THEN sel
    ELSE AddComponentSurfaces(
             [sel EXCEPT !.Surfs =
                 AddUnique(sel.Surfs, M.Nodes[CompNodes[InnerNodeIndex]].iSurf)],
             M, CompNodes, InnerNodeIndex + 1)

\* "Find it's model component...": the loop over Model->Nodes (lines
\* 831-847, 858-874) for surface SurfIdx, from NodeIdx on.
RECURSIVE FindModelComponents(_, _, _, _)
FindModelComponents(sel, M, SurfIdx, NodeIdx) ==
    IF NodeIdx > Len(M.Nodes) THEN sel
    ELSE IF M.Nodes[NodeIdx].iSurf = SurfIdx
         THEN LET Component == M.Nodes[NodeIdx].ComponentIndex
                  s1 == [sel EXCEPT !.Components = AddUnique(sel.Components, Component)]
                  s2 == AddComponentSurfaces(s1, M, ComponentNodes(M, Component, 1), 1)
              IN FindModelComponents(s2, M, SurfIdx, NodeIdx + 1)
         ELSE FindModelComponents(sel, M, SurfIdx, NodeIdx + 1)

\* "Find selected surfaces...": the loop over Model->Surfs (lines 809-849),
\* from SurfIdx on.
RECURSIVE FindSelectedSurfaces(_, _, _, _)
FindSelectedSurfaces(sel, M, Brushes, SurfIdx) ==
    IF SurfIdx > Len(M.Surfs) THEN sel
    ELSE LET s1 == IF SurfaceSelected(M, Brushes, SurfIdx)
                   THEN FindModelComponents(
                            [sel EXCEPT !.Surfs = Append(sel.Surfs, SurfIdx)],
                            M, SurfIdx, 1)
                   ELSE sel
         IN FindSelectedSurfaces(s1, M, Brushes, SurfIdx + 1)

\* "Pass 2...": the loop over SelectedSurfaceIndices (lines 852-876), from
\* SSIdx on. The loop reads SelectedSurfaceIndices.Num() before every
\* iteration, so it also visits the surfaces it appends.
ExpandSelectedSurfaces_NoSecondPass(sel, M, SSIdx) == sel

RECURSIVE ExpandSelectedSurfaces(_, _, _)
ExpandSelectedSurfaces(sel, M, SSIdx) ==
    IF SSIdx > Len(sel.Surfs) THEN sel
    ELSE ExpandSelectedSurfaces(FindModelComponents(sel, M, sel.Surfs[SSIdx], 1),
                                M, SSIdx + 1)

\* Lines 807-876: both passes.
SelectSurfaces(M, Brushes) ==
    ExpandSelectedSurfaces(
        FindSelectedSurfaces([Surfs |-> <<>>, Components |-> <<>>], M, Brushes, 1),
        M, 1)

\* ------------------------------------------------------------------ sort
\* FCompareNumTexels: A goes before B.
FCompareNumTexels_Ascending(A, B) == A.NumTexels < B.NumTexels

FCompareNumTexels(A, B) == B.NumTexels < A.NumTexels

\* One step of the sort: Item goes behind every element it does not have to
\* go before.
InsertSorted(Sorted, Item) ==
    LET k == Cardinality({i \in 1 .. Len(Sorted) : ~FCompareNumTexels(Item, Sorted[i])})
    IN SubSeq(Sorted, 1, k) \o <<Item>> \o SubSeq(Sorted, k + 1, Len(Sorted))

\* TArray::Sort with FCompareNumTexels: descending by texel count, ties in
\* the order of the gather.
RECURSIVE Sort(_)
Sort(Array) ==
    IF Array = <<>> THEN <<>>
    ELSE InsertSorted(Sort(SubSeq(Array, 1, Len(Array) - 1)), Array[Len(Array)])

\* The loop over the sorted mappings (lines 511-523) from SortIndex on.
RECURSIVE TagSortedMappings(_, _, _)
TagSortedMappings(s, Sorted, SortIndex) ==
    IF SortIndex > Len(Sorted) THEN s
    ELSE LET Mapping == Sorted[SortIndex]
             s1 == [s EXCEPT !.mappings = Append(s.mappings, Mapping)]
             s2 == IF Mapping.bProcessMapping
                   THEN [s1 EXCEPT !.meshes[Mapping.Mesh].Guid = s1.detIndex,
                                   !.detIndex = s1.detIndex + 1]
                   ELSE s1
         IN TagSortedMappings(s2, Sorted, SortIndex + 1)

\* The sort block of BeginLightmassProcess (lines 499-525).
SortMappings(s) ==
    IF s.sort
    THEN [TagSortedMappings(s, Sort(s.unsorted), 1) EXCEPT !.unsorted = <<>>]
    ELSE s

\* ------------------------------------------------------------------ scene
\* FStaticLightingSystem::InvalidateStaticLighting: clears the cached
\* lighting of the levels and actors in scope.
InvalidateStaticLighting(s) ==
    [s EXCEPT !.invalidations = s.invalidations + 1,
              !.lighting = IF ~s.opts.bOnlyBuildVisibility
                           THEN "Invalidated" ELSE s.lighting]

\* FStaticLightingSystem::CompleteDeterministicMappings: imports the
\* results into the components' temporary elements.
CompleteDeterministicMappings(s) == [s EXCEPT !.temp = TRUE]

\* FStaticLightingSystem::ApplyNewLightingData: ApplyTempElements keeps the
\* imported results or drops them, then the world's components are cleared
\* and rebuilt and the BSP surfaces committed; a failed build that was not
\* cancelled is reported in a dialog.
ApplyNewLightingData(s, bLightingSuccessful) ==
    [s EXCEPT !.lighting = IF bLightingSuccessful /\ s.temp THEN "Built" ELSE s.lighting,
              !.temp = FALSE,
              !.commits = s.commits + 1,
              !.dialogs = IF ~bLightingSuccessful /\ ~s.buildCanceled
                          THEN s.dialogs \cup {"The lighting build failed!"}
                          ELSE s.dialogs]

\* ------------------------------------------------------------------ startup
\* FStaticLightingSystem::CreateLightmassProcessor: [s, ok]
CreateLightmassProcessor(s, in) ==
    IF s.opts.bOnlyBuildVisibility /\ ~in.bPrecomputeVisibility
    THEN [s |-> [s EXCEPT !.dialogs = s.dialogs \cup
                     {"Build Only Visibility but precomputed visibility is disabled"}],
          ok |-> FALSE]
    ELSE IF ~in.bSwarmConnectionValid
         THEN [s |-> [s EXCEPT !.proc = NULL,
                               !.dialogs = s.dialogs \cup {"Failed to connect to Swarm."}],
               ok |-> FALSE]
         ELSE [s |-> [s EXCEPT !.proc = s.sys], ok |-> TRUE]

\* FStaticLightingSystem::InitiateLightmassProcessor: [s, ok]
InitiateLightmassProcessor_StartsKickoff(s, in) ==
    IF ~s.cancelled
    THEN LET s1 == OpenJob(s, in)
         IN IF in.bOpenJob
            THEN [s |-> DisableCrashTracker([s1 EXCEPT !.stage = "SwarmKickoff"]),
                  ok |-> TRUE]
            ELSE [s |-> s1, ok |-> FALSE]
    ELSE [s |-> s, ok |-> FALSE]

InitiateLightmassProcessor(s, in) ==
    IF ~s.cancelled
    THEN LET s1 == OpenJob(s, in)
         IN IF in.bOpenJob
            THEN [s |-> DisableCrashTracker([s1 EXCEPT !.stage = "AmortizedExport"]),
                  ok |-> TRUE]
            ELSE [s |-> s1, ok |-> FALSE]
    ELSE [s |-> s, ok |-> FALSE]

\* The loop of lines 360-378 from LevelIndex on: the names of the levels
\* the options exclude.
RECURSIVE SkippedLevelNames(_, _)
SkippedLevelNames(s, LevelIndex) ==
    IF LevelIndex > Cardinality(Levels) THEN <<>>
    ELSE (IF ~s.buildLevel[LevelIndex] THEN <<LevelIndex>> ELSE <<>>)
         \o SkippedLevelNames(s, LevelIndex + 1)

\* FStaticLightingSystem::BeginLightmassProcess: [s, ok]
BeginLightmassProcess_AlwaysContactsService(s, in) ==
    LET s1 == [s EXCEPT !.stage = "Startup",
                        !.skipped = SkippedLevelNames(s, 1),
                        !.visId = [a \in Actors |-> INDEX_NONE],
                        !.modelVisId = [c \in ModelComponents |-> INDEX_NONE],
                        !.areaLights = IF ~s.opts.bOnlyBuildVisibility
                                       THEN FALSE ELSE s.areaLights,
                        !.lights = IF ~s.opts.bOnlyBuildVisibility
                                   THEN WorldLights ELSE <<>>]
        s2 == SortMappings(GatherStaticLightingInfo(s1, in))
        c == CreateLightmassProcessor(s2, in)
    IN IF c.ok THEN InitiateLightmassProcessor(c.s, in) ELSE c

BeginLightmassProcess(s, in) ==
    LET s1 == [s EXCEPT !.stage = "Startup",
                        !.skipped = SkippedLevelNames(s, 1),
                        !.visId = [a \in Actors |-> INDEX_NONE],
                        !.modelVisId = [c \in ModelComponents |-> INDEX_NONE],
                        !.areaLights = IF ~s.opts.bOnlyBuildVisibility
                                       THEN FALSE ELSE s.areaLights,
                        !.lights = IF ~s.opts.bOnlyBuildVisibility
                                   THEN WorldLights ELSE <<>>]
        s2 == SortMappings(GatherStaticLightingInfo(s1, in))
    IN IF ~in.bForceNoPrecomputedLighting
       THEN LET c == CreateLightmassProcessor(s2, in)
            IN IF c.ok THEN InitiateLightmassProcessor(c.s, in) ELSE c
       ELSE [s |-> ApplyNewLightingData(InvalidateStaticLighting(s2), TRUE),
             ok |-> FALSE]

\* FStaticLightingManager::CreateStaticLightingSystem
CreateStaticLightingSystem_NoCheck(s, in) ==
    LET s1 == NewStaticLightingSystem(s, in.opts)
        b == BeginLightmassProcess(s1, in)
    IN IF b.ok THEN SendProgressNotification(b.s)
       ELSE DestroyStaticLightingSystem(b.s)

CreateStaticLightingSystem_RestartsProgress(s, in) ==
    IF s.sys = NULL
    THEN LET s1 == NewStaticLightingSystem(s, in.opts)
             b == BeginLightmassProcess(s1, in)
         IN IF b.ok THEN SendProgressNotification(b.s)
            ELSE DestroyStaticLightingSystem(b.s)
    ELSE SendProgressNotification([s EXCEPT !.notices = s.notices + 1])

CreateStaticLightingSystem(s, in) ==
    IF s.sys = NULL
    THEN LET s1 == NewStaticLightingSystem(s, in.opts)
             b == BeginLightmassProcess(s1, in)
         IN IF b.ok THEN SendProgressNotification(b.s)
            ELSE DestroyStaticLightingSystem(b.s)
    ELSE [s EXCEPT !.notices = s.notices + 1]

\* UEditorEngine::BuildLighting
BuildLighting(s, in) ==
    CreateStaticLightingSystem([s EXCEPT !.started = s.started + 1], in)

\* ------------------------------------------------------------------ finalization
\* A call of FinishLightmassProcess, recorded with the stage it runs in.
Called(s, Callee) ==
    [s EXCEPT !.log = Append(s.log, [Callee |-> Callee, Stage |-> s.stage])]

\* FStaticLightingSystem::PostInvalidateStaticLighting: the lighting cache
\* of the registered primitive of every actor that is build-eligible now
\* and not enqueued for rebuild is invalidated, unless the build is
\* visibility-only.
PostInvalidateStaticLighting_IgnoresEnqueued(s) ==
    [s EXCEPT !.postInvalidated =
        {a \in Actors :
            /\ s.buildLevel[ActorLevel(a)]
            /\ ~s.opts.bOnlyBuildSelected \/ a \in s.selected
            /\ ~s.opts.bOnlyBuildVisibility}]

PostInvalidateStaticLighting(s) ==
    [s EXCEPT !.postInvalidated =
        {a \in Actors :
            /\ s.buildLevel[ActorLevel(a)]
            /\ ~s.opts.bOnlyBuildSelected \/ a \in s.selected
            /\ ~s.opts.bOnlyBuildVisibility
            /\ a \notin s.enqueued}]

\* FStaticLightingSystem::FinishLightmassProcess: [s, ok]
FinishLightmassProcess_ClosesJobLast(s, in) ==
    LET s1 == [s EXCEPT !.stage = "Import", !.finishes = s.finishes + 1,
                        !.log = <<>>]
        s2 == Called(InvalidateStaticLighting(s1), "InvalidateStaticLighting")
        bCompleteRun == in.bCompleteRun
        s3 == Called(s2, "CompleteRun")
        s4 == IF bCompleteRun
              THEN Called(CompleteDeterministicMappings(s3),
                          "CompleteDeterministicMappings")
              ELSE s3
        s5 == IF bCompleteRun /\ ~s.opts.bOnlyBuildVisibility
              THEN Called(s4, "ReassignStationaryLightChannels")
              ELSE s4
        s6 == Called(s5, "EncodeTextures")
        bClosed == in.bCloseJob /\ bCompleteRun
        s8 == Called(s6, "MergeStatistics")
        s9 == [s8 EXCEPT !.buildCanceled = s8.buildCanceled \/ s8.cancelled]
        bSuccessful == bClosed /\ ~s9.buildCanceled
        s10 == Called(ApplyNewLightingData(s9, bSuccessful), "ApplyNewLightingData")
        s11 == Called(PostInvalidateStaticLighting(s10), "PostInvalidateStaticLighting")
    IN [s |-> Called(CloseJob(s11), "CloseJob"), ok |-> bSuccessful]

FinishLightmassProcess(s, in) ==
    LET s1 == [s EXCEPT !.stage = "Import", !.finishes = s.finishes + 1,
                        !.log = <<>>]
        s2 == Called(InvalidateStaticLighting(s1), "InvalidateStaticLighting")
        bCompleteRun == in.bCompleteRun
        s3 == Called(s2, "CompleteRun")
        s4 == IF bCompleteRun
              THEN Called(CompleteDeterministicMappings(s3),
                          "CompleteDeterministicMappings")
              ELSE s3
        s5 == IF bCompleteRun /\ ~s.opts.bOnlyBuildVisibility
              THEN Called(s4, "ReassignStationaryLightChannels")
              ELSE s4
        s6 == Called(s5, "EncodeTextures")
        s7 == Called(CloseJob(s6), "CloseJob")
        bClosed == in.bCloseJob /\ bCompleteRun
        s8 == Called(s7, "MergeStatistics")
        s9 == [s8 EXCEPT !.buildCanceled = s8.buildCanceled \/ s8.cancelled]
        bSuccessful == bClosed /\ ~s9.buildCanceled
        s10 == Called(ApplyNewLightingData(s9, bSuccessful), "ApplyNewLightingData")
    IN [s |-> Called(PostInvalidateStaticLighting(s10), "PostInvalidateStaticLighting"),
        ok |-> bSuccessful]

\* FStaticLightingManager::ProcessLightingData
ProcessLightingData_DiscardFinishes(s, bDiscardResults, in) ==
    LET f == FinishLightmassProcess(s, in)
        s1 == IF ~f.ok /\ ~bDiscardResults THEN FailLightingBuild(f.s, "") ELSE f.s
    IN ClearCurrentNotification(DestroyStaticLightingSystem(s1))

ProcessLightingData(s, bDiscardResults, in) ==
    LET s1 == IF ~bDiscardResults
              THEN LET f == FinishLightmassProcess(s, in)
                   IN IF ~f.ok THEN FailLightingBuild(f.s, "") ELSE f.s
              ELSE s
    IN ClearCurrentNotification(DestroyStaticLightingSystem(s1))

\* FStaticLightingManager::CancelLightingBuild
CancelLightingBuild_AlwaysFail(s) ==
    FailLightingBuild([s EXCEPT !.cancelStage = s.stage], "")

CancelLightingBuild(s) ==
    LET s0 == [s EXCEPT !.cancelStage = s.stage]
    IN IF IsAsyncBuilding(s0)
       THEN ClearCurrentNotification([s0 EXCEPT !.cancelled = TRUE])
       ELSE FailLightingBuild(s0, "")

\* ------------------------------------------------------------------ the tick
\* FStaticLightingSystem::KickoffSwarm
KickoffSwarm_RetriesExport(s, in) ==
    IF in.bBeginRun
    THEN [s EXCEPT !.stage = "AsynchronousBuilding"]
    ELSE [s EXCEPT !.stage = "AmortizedExport"]

KickoffSwarm_IgnoresBeginRun(s, in) ==
    [s EXCEPT !.stage = "AsynchronousBuilding"]

KickoffSwarm(s, in) ==
    IF in.bBeginRun
    THEN [s EXCEPT !.stage = "AsynchronousBuilding"]
    ELSE FailLightingBuild(s, "Lighting build failed. Swarm failed to kick off.")

\* A write of CurrentBuildStage after the handler's own system may have
\* been deleted: it reaches the system if it is alive and freed memory if not.
WriteCurrentBuildStage(s, stage) ==
    IF s.sys # NULL THEN [s EXCEPT !.stage = stage] ELSE [s EXCEPT !.stale = TRUE]

\* FStaticLightingSystem::UpdateLightingBuild
UpdateLightingBuild_KeepsFailedBuild(s, in) ==
    CASE s.stage = "AmortizedExport" ->
            LET s1 == SetNotificationText(s, "Exporting lighting data")
            IN IF in.bExportCompleted
               THEN [RestoreCrashTracker(s1) EXCEPT !.stage = "SwarmKickoff"]
               ELSE s1
      [] s.stage = "SwarmKickoff" ->
            KickoffSwarm(SetNotificationText(s, "Kicking off Swarm"), in)
      [] s.stage = "AsynchronousBuilding" ->
            LET s1 == SetNotificationText(s, "Building lighting")
            IN IF ProcessorUpdate(s1, in) /\ IsProcessingCompletedSuccessfully(s1, in)
               THEN [ClearCurrentNotification(s1) EXCEPT !.stage = "AutoApplyingImport"]
               ELSE s1
      [] s.stage = "AutoApplyingImport" ->
            IF CanAutoApplyLighting(in)
            THEN WriteCurrentBuildStage(
                     ProcessLightingData(SendBuildDoneNotification(s, FALSE), FALSE, in),
                     "NotRunning")
            ELSE [SendBuildDoneNotification(s, TRUE) EXCEPT
                     !.stage = "WaitingForImport"]
      [] OTHER -> s

UpdateLightingBuild_ImportsFailedRun(s, in) ==
    CASE s.stage = "AmortizedExport" ->
            LET s1 == SetNotificationText(s, "Exporting lighting data")
            IN IF in.bExportCompleted
               THEN [RestoreCrashTracker(s1) EXCEPT !.stage = "SwarmKickoff"]
               ELSE s1
      [] s.stage = "SwarmKickoff" ->
            KickoffSwarm(SetNotificationText(s, "Kicking off Swarm"), in)
      [] s.stage = "AsynchronousBuilding" ->
            LET s1 == SetNotificationText(s, "Building lighting")
            IN IF ProcessorUpdate(s1, in)
               THEN [ClearCurrentNotification(s1) EXCEPT !.stage = "AutoApplyingImport"]
               ELSE s1
      [] s.stage = "AutoApplyingImport" ->
            IF CanAutoApplyLighting(in)
            THEN WriteCurrentBuildStage(
                     ProcessLightingData(SendBuildDoneNotification(s, FALSE), FALSE, in),
                     "NotRunning")
            ELSE [SendBuildDoneNotification(s, TRUE) EXCEPT
                     !.stage = "WaitingForImport"]
      [] OTHER -> s

UpdateLightingBuild_KicksOffOnExport(s, in) ==
    CASE s.stage = "AmortizedExport" ->
            LET s1 == SetNotificationText(s, "Exporting lighting data")
            IN IF in.bExportCompleted
               THEN KickoffSwarm([RestoreCrashTracker(s1) EXCEPT !.stage = "SwarmKickoff"],
                                 [in EXCEPT !.bBeginRun = TRUE])
               ELSE s1
      [] s.stage = "SwarmKickoff" ->
            KickoffSwarm(SetNotificationText(s, "Kicking off Swarm"), in)
      [] s.stage = "AsynchronousBuilding" ->
            LET s1 == SetNotificationText(s, "Building lighting")
            IN IF ProcessorUpdate(s1, in)
               THEN LET s2 == ClearCurrentNotification(s1)
                    IN IF IsProcessingCompletedSuccessfully(s2, in)
                       THEN [s2 EXCEPT !.stage = "AutoApplyingImport"]
                       ELSE WriteCurrentBuildStage(FailLightingBuild(s2, ""),
                                                   "NotRunning")
               ELSE s1
      [] s.stage = "AutoApplyingImport" ->
            IF CanAutoApplyLighting(in)
            THEN WriteCurrentBuildStage(
                     ProcessLightingData(SendBuildDoneNotification(s, FALSE), FALSE, in),
                     "NotRunning")
            ELSE [SendBuildDoneNotification(s, TRUE) EXCEPT
                     !.stage = "WaitingForImport"]
      [] OTHER -> s

UpdateLightingBuild_RetriesAutoApply(s, in) ==
    CASE s.stage = "AmortizedExport" ->
            LET s1 == SetNotificationText(s, "Exporting lighting data")
            IN IF in.bExportCompleted
               THEN [RestoreCrashTracker(s1) EXCEPT !.stage = "SwarmKickoff"]
               ELSE s1
      [] s.stage = "SwarmKickoff" ->
            KickoffSwarm(SetNotificationText(s, "Kicking off Swarm"), in)
      [] s.stage = "AsynchronousBuilding" ->
            LET s1 == SetNotificationText(s, "Building lighting")
            IN IF ProcessorUpdate(s1, in)
               THEN LET s2 == ClearCurrentNotification(s1)
                    IN IF IsProcessingCompletedSuccessfully(s2, in)
                       THEN [s2 EXCEPT !.stage = "AutoApplyingImport"]
                       ELSE WriteCurrentBuildStage(FailLightingBuild(s2, ""),
                                                   "NotRunning")
               ELSE s1
      [] s.stage = "AutoApplyingImport" ->
            IF CanAutoApplyLighting(in)
            THEN WriteCurrentBuildStage(
                     ProcessLightingData(SendBuildDoneNotification(s, FALSE), FALSE, in),
                     "NotRunning")
            ELSE [SendBuildDoneNotification(s, TRUE) EXCEPT
                     !.stage = "WaitingForImport"]
      [] s.stage = "WaitingForImport" ->
            IF CanAutoApplyLighting(in)
            THEN WriteCurrentBuildStage(ProcessLightingData(s, FALSE, in),
                                        "NotRunning")
            ELSE s
      [] OTHER -> s

UpdateLightingBuild(s, in) ==
    CASE s.stage = "AmortizedExport" ->
            LET s1 == SetNotificationText(s, "Exporting lighting data")
            IN IF in.bExportCompleted
               THEN [RestoreCrashTracker(s1) EXCEPT !.stage = "SwarmKickoff"]
               ELSE s1
      [] s.stage = "SwarmKickoff" ->
            KickoffSwarm(SetNotificationText(s, "Kicking off Swarm"), in)
      [] s.stage = "AsynchronousBuilding" ->
            LET s1 == SetNotificationText(s, "Building lighting")
            IN IF ProcessorUpdate(s1, in)
               THEN LET s2 == ClearCurrentNotification(s1)
                    IN IF IsProcessingCompletedSuccessfully(s2, in)
                       THEN [s2 EXCEPT !.stage = "AutoApplyingImport"]
                       ELSE WriteCurrentBuildStage(FailLightingBuild(s2, ""),
                                                   "NotRunning")
               ELSE s1
      [] s.stage = "AutoApplyingImport" ->
            IF CanAutoApplyLighting(in)
            THEN WriteCurrentBuildStage(
                     ProcessLightingData(SendBuildDoneNotification(s, FALSE), FALSE, in),
                     "NotRunning")
            ELSE [SendBuildDoneNotification(s, TRUE) EXCEPT
                     !.stage = "WaitingForImport"]
      [] OTHER -> s

\* FStaticLightingManager::UpdateBuildLighting
UpdateBuildLighting(s, in) ==
    IF s.sys # NULL THEN UpdateLightingBuild(s, in) ELSE s

\* ------------------------------------------------------------------ actions
\* The program before the first build request: no system, and a level that
\* was loaded with the lighting and the generated area lights of an earlier
\* build.
InitProgram ==
    /\ StaticLightingSystem = NULL
    /\ liveSystems = {}
    /\ numCreated = 0
    /\ CurrentBuildStage = "NotRunning"
    /\ Options = NoOptions
    /\ Lights = <<>>
    /\ Meshes = <<>>
    /\ Mappings = <<>>
    /\ DeterministicIndex = 0
    /\ NextVisibilityId = 0
    /\ LightmassProcessor = NULL
    /\ LightBuildNotification = NoNotification
    /\ MapBuildCancelled = FALSE
    /\ swarmJob = "NoJob"
    /\ closeJobCalls = 0
    /\ sceneLighting = "Prior"
    /\ numInvalidations = 0
    /\ numWorldCommits = 0
    /\ tempElements = FALSE
    /\ numFinishRuns = 0
    /\ alreadyRunningNotices = 0
    /\ buildStartedBroadcasts = 0
    /\ wroteAfterDelete = FALSE
    /\ cancelStage = "None"
    /\ UnSortedMappings = <<>>
    /\ bBuildCanceled = FALSE
    /\ VisibilityId = [a \in Actors |-> INDEX_NONE]
    /\ ModelVisibilityId = [c \in ModelComponents |-> INDEX_NONE]
    /\ bStaticLightingBuildEnqueued = {}
    /\ levelDirty = [l \in Levels |-> FALSE]
    /\ generatedAreaLights = TRUE
    /\ CachedMappings = <<>>
    /\ NumIncompleteNodeGroups = 0
    /\ finishLog = <<>>
    /\ lightingCacheInvalidated = {}
    /\ bCrashTrackerOriginallyEnabled = FALSE
    /\ outcomeNotifications = 0
    /\ Dialogs = {}
    /\ bNothingSelectedError = FALSE
    /\ SkippedLevels = <<>>
    /\ lastGather = NoGather
    /\ lastCall = "None"
    /\ lastIn = NoInput

\* The runs of the build state machine and of the gather take the outcome
\* of the expansion of the selected surfaces as an input (bSelected of the
\* node groups); they carry no BSP model of their own.
NoSelectionRun ==
    /\ Model = [Nodes |-> <<>>, Surfs |-> <<>>]
    /\ SelectedBrushes = {}
    /\ SelectedSurfaceIndices = <<>>
    /\ SelectedModelComponents = <<>>

\* The level of the runs of the build state machine: every actor's
\* primitive has one mapping, every node group one node in its own component;
\* the editor's selection is empty, or it is the first actor and a surface of
\* the first node group.
Init ==
    /\ InitProgram
    /\ NoSelectionRun
    /\ bCrashTrackingEnabled = TRUE
    /\ ShouldBuildLightingForLevel = [l \in Levels |-> TRUE]
    /\ bSortMappings = TRUE
    /\ PrimitiveTexels = [a \in Actors |-> <<1>>]
    /\ \E bSelection \in BOOLEAN :
        /\ Selected = IF bSelection THEN {1} ELSE {}
        /\ NodeGroups = [g \in 1 .. NumNodeGroups |->
                            NodeGroup(<<g>>, 1, bSelection /\ g = 1)]

\* The editor requests a build: UEditorEngine::BuildLighting(Options).
RequestBuild ==
    /\ buildStartedBroadcasts < MaxRequests
    /\ \E in \in BuildInputs :
        /\ Becomes(BuildLighting(State, in))
        /\ lastCall' = "BuildLighting"
        /\ lastIn' = in
    /\ UNCHANGED <<lastGather, selectionVars>>

\* The editor's frame loop ticks the build: UEditorEngine::UpdateBuildLighting.
Tick ==
    \E in \in TickInputs(CurrentBuildStage) :
        /\ Becomes(UpdateBuildLighting(State, in))
        /\ lastCall' = "UpdateBuildLighting"
        /\ lastIn' = in
        /\ UNCHANGED <<lastGather, selectionVars>>

\* The Cancel button of the progress notification, or another caller of
\* FStaticLightingManager::CancelLightingBuild while a system exists.
Cancel ==
    /\ StaticLightingSystem # NULL
    /\ Becomes(CancelLightingBuild(State))
    /\ lastCall' = "CancelLightingBuild"
    /\ lastIn' = NoInput
    /\ UNCHANGED <<lastGather, selectionVars>>

\* The Apply Now button of the build-done notification.
Apply ==
    /\ StaticLightingSystem # NULL
    /\ LightBuildNotification.kind = "BuildDone"
    /\ \E in \in FinishInputs :
        /\ Becomes(ProcessLightingData(State, FALSE, in))
        /\ lastCall' = "ProcessLightingData(false)"
        /\ lastIn' = in
        /\ UNCHANGED <<lastGather, selectionVars>>

\* The Discard button of the build-done notification.
Discard ==
    /\ StaticLightingSystem # NULL
    /\ LightBuildNotification.kind = "BuildDone"
    /\ Becomes(ProcessLightingData(State, TRUE, NoInput))
    /\ lastCall' = "ProcessLightingData(true)"
    /\ lastIn' = NoInput
    /\ UNCHANGED <<lastGather, selectionVars>>

Next == RequestBuild \/ Tick \/ Cancel \/ Apply \/ Discard

Spec == Init /\ [][Next]_vars

\* ------------------------------------------------------------------ selection changes
\* The builds of Spec in an editor in which one more actor is selected
\* while the remote build is running (the editor stays interactive between
\* two ticks).
SelectActors ==
    /\ StaticLightingSystem # NULL
    /\ CurrentBuildStage = "AsynchronousBuilding"
    /\ \E a \in Actors \ Selected :
        Becomes([State EXCEPT !.selected = Selected \cup {a}])
    /\ lastCall' = "SelectActors"
    /\ lastIn' = NoInput
    /\ UNCHANGED <<lastGather, selectionVars>>

SelectionNext == RequestBuild \/ Tick \/ Cancel \/ Apply \/ Discard \/ SelectActors

SelectionSpec == Init /\ [][SelectionNext]_vars

\* ------------------------------------------------------------------ gather runs
\* The gather, the sort and the assignment of deterministic indices over
\* the levels of GatherScenes: builds are requested with the remote service
\* reachable and cancelled during the export, so that one run gathers the
\* same level more than once.
GatherInit ==
    /\ InitProgram
    /\ NoSelectionRun
    /\ bCrashTrackingEnabled = TRUE
    /\ ShouldBuildLightingForLevel \in [Levels -> BOOLEAN]
    /\ Selected \in SUBSET Actors
    /\ bSortMappings \in BOOLEAN
    /\ PrimitiveTexels \in [Actors -> PrimitiveInfos]
    /\ NodeGroups \in [1 .. NumNodeGroups -> NodeGroupKinds]

\* The GUIDs of the gathered meshes, mesh by mesh.
GuidsOf(meshes) ==
    [i \in 1 .. Len(meshes) |-> [Component |-> meshes[i].Component,
                                 Guid |-> meshes[i].Guid]]

\* A build request that reaches the service; a request that passes startup
\* is remembered in lastGather.
GatherRequest ==
    /\ buildStartedBroadcasts < MaxRequests
    /\ \E in \in GatherInputs :
        /\ Becomes(BuildLighting(State, in))
        /\ lastCall' = "BuildLighting"
        /\ lastIn' = in
    /\ lastGather' = IF numCreated' # numCreated /\ StaticLightingSystem' # NULL
                     THEN [valid |-> TRUE, opts |-> Options', guids |-> GuidsOf(Meshes')]
                     ELSE lastGather
    /\ UNCHANGED selectionVars

GatherNext == GatherRequest \/ Cancel

GatherSpec == GatherInit /\ [][GatherNext]_vars

\* ------------------------------------------------------------------ expansion runs
\* The expansion of the selected surfaces over the BSP models of at most
\* NumSurfs surfaces whose nodes lie in NumModelComponents components.
Surfs == 1 .. NumSurfs

\* The one brush actor of those levels; it owns the last surface.
Brush == 1

\* Every node a model can have: one per surface and component.
NodePool ==
    [k \in 1 .. NumSurfs * NumModelComponents |->
        [iSurf |-> ((k - 1) \div NumModelComponents) + 1,
         ComponentIndex |-> ((k - 1) % NumModelComponents) + 1]]

\* The nodes of NodePool from k on whose index is in Picked, in the order
\* of the pool.
RECURSIVE PickNodes(_, _)
PickNodes(Picked, k) ==
    IF k > Len(NodePool) THEN <<>>
    ELSE (IF k \in Picked THEN <<NodePool[k]>> ELSE <<>>) \o PickNodes(Picked, k + 1)

ExpandInit ==
    /\ InitProgram
    /\ bCrashTrackingEnabled = TRUE
    /\ ShouldBuildLightingForLevel = [l \in Levels |-> TRUE]
    /\ bSortMappings = TRUE
    /\ Selected = {}
    /\ PrimitiveTexels = [a \in Actors |-> <<>>]
    /\ NodeGroups = [g \in 1 .. NumNodeGroups |-> NodeGroup(<<>>, 1, FALSE)]
    /\ \E Picked \in SUBSET (1 .. Len(NodePool)), PolySelected \in SUBSET Surfs :
        Model = [Nodes |-> PickNodes(Picked, 1),
                 Surfs |-> [s \in Surfs |->
                              [bPF_Selected |-> s \in PolySelected,
                               Actor |-> IF s = NumSurfs THEN Brush ELSE NULL]]]
    /\ SelectedBrushes \in SUBSET {Brush}
    /\ SelectedSurfaceIndices = <<>>
    /\ SelectedModelComponents = <<>>

\* The selection-scoped gather expands the selected surfaces of the model.
ExpandSelection ==
    /\ lastCall = "None"
    /\ LET sel == SelectSurfaces(Model, SelectedBrushes)
       IN /\ SelectedSurfaceIndices' = sel.Surfs
          /\ SelectedModelComponents' = sel.Components
    /\ lastCall' = "GatherStaticLightingInfo"
    /\ UNCHANGED <<StaticLightingSystem, liveSystems, numCreated, CurrentBuildStage,
                   Options, Lights, Meshes, Mappings, DeterministicIndex,
                   NextVisibilityId, LightmassProcessor, LightBuildNotification,
                   MapBuildCancelled, swarmJob, closeJobCalls, sceneLighting,
                   numInvalidations, numWorldCommits, tempElements, numFinishRuns,
                   alreadyRunningNotices, buildStartedBroadcasts, wroteAfterDelete,
                   cancelStage, UnSortedMappings, bBuildCanceled, VisibilityId,
                   ModelVisibilityId, bStaticLightingBuildEnqueued, levelDirty,
                   generatedAreaLights, CachedMappings, NumIncompleteNodeGroups,
          finishLog, lightingCacheInvalidated, bCrashTrackingEnabled,
          bCrashTrackerOriginallyEnabled, outcomeNotifications, Dialogs,
                   bNothingSelectedError, SkippedLevels, sceneInputs, Model,
                   SelectedBrushes, lastGather, lastIn>>

ExpandNext == ExpandSelection

ExpandSpec == ExpandInit /\ [][ExpandNext]_vars

\* ------------------------------------------------------------------ steps
\* The step is a call of the entry point (a call that changes nothing is a
\* stuttering step).
RequestStep == buildStartedBroadcasts' = buildStartedBroadcasts + 1
TickStep == lastCall' = "UpdateBuildLighting"
CancelStep == lastCall' = "CancelLightingBuild"
ApplyStep == lastCall' = "ProcessLightingData(false)"
DiscardStep == lastCall' = "ProcessLightingData(true)"

NoSystem == StaticLightingSystem = NULL
TornDown == StaticLightingSystem' = NULL /\ liveSystems' = {}
                /\ CurrentBuildStage' = "NotRunning"
SameSystem == StaticLightingSystem' = StaticLightingSystem /\ liveSystems' = liveSystems

\* ------------------------------------------------------------------ claims

\* C1: in every reachable state at most one FStaticLightingSystem exists (it
\* is the one the manager points at), and a build request made while one
\* exists constructs no system.
C1_AtMostOneSystem ==
    /\ [](/\ Cardinality(liveSystems) <= 1
          /\ liveSystems = IF NoSystem THEN {} ELSE {StaticLightingSystem})
    /\ [][(RequestStep /\ ~NoSystem) =>
            (numCreated' = numCreated /\ SameSystem)]_vars

\* C1 witness: a request was rejected and the one system is still alive.
C1_Witness ==
    /\ alreadyRunningNotices > 0
    /\ ~NoSystem
    /\ liveSystems = {StaticLightingSystem}

\* C2: a build request made while a build is active raises the "already in
\* progress" notice and leaves the build as it was: same system, stage,
\* gathered lights, meshes and mappings, remote job and progress notification.
C2_RejectedRequestChangesNothing ==
    [][(RequestStep /\ ~NoSystem) =>
        /\ alreadyRunningNotices' = alreadyRunningNotices + 1
        /\ SameSystem
        /\ UNCHANGED <<CurrentBuildStage, Options, Lights, Meshes, Mappings,
                       DeterministicIndex, NextVisibilityId, LightmassProcessor,
                       swarmJob, closeJobCalls, LightBuildNotification,
                       MapBuildCancelled, cancelStage>>]_vars

\* C2 witness: a request was rejected while the build waited for the user's
\* apply-or-discard decision.
C2_Witness ==
    /\ lastCall = "BuildLighting"
    /\ alreadyRunningNotices = 1
    /\ CurrentBuildStage = "WaitingForImport"
    /\ LightBuildNotification.kind = "BuildDone"

\* C3: while one system lives its stage never moves to an earlier stage of
\* the sequence; a system that stops being the manager's system is gone
\* (not running), and a new stage sequence starts only with a new system.
C3_StageNeverRegresses ==
    [][/\ (~NoSystem /\ StaticLightingSystem' = StaticLightingSystem) =>
            StageRank(CurrentBuildStage') >= StageRank(CurrentBuildStage)
       /\ (~NoSystem /\ StaticLightingSystem' # StaticLightingSystem) => TornDown
       /\ (NoSystem /\ StaticLightingSystem' # NULL) =>
            (RequestStep /\ StaticLightingSystem' = numCreated')]_vars

\* C3 witness: a system went through the whole sequence up to WaitingForImport.
C3_Witness ==
    /\ ~NoSystem
    /\ CurrentBuildStage = "WaitingForImport"

\* C4 (as claimed): once a build whose remote job was opened is torn down,
\* CloseJob has been called exactly once for it.
C4_ClosedExactlyOnceOnEveryPath ==
    (NoSystem /\ swarmJob # "NoJob") => closeJobCalls = 1

\* C5 (as claimed): once a build that was cancelled in AsynchronousBuilding
\* is torn down, CloseJob has been called exactly once for it.
C5_CancelledAsyncClosedOnce ==
    (NoSystem /\ cancelStage = "AsynchronousBuilding") => closeJobCalls = 1

C7_CancelByStage ==
    [][(CancelStep /\ ~NoSystem) =>
        IF CurrentBuildStage = "AsynchronousBuilding"
        THEN /\ MapBuildCancelled'
             /\ ~IsValid(LightBuildNotification')
             /\ SameSystem
             /\ UNCHANGED <<CurrentBuildStage, LightmassProcessor, swarmJob>>
        ELSE /\ TornDown
             /\ LightBuildNotification'.kind = "Fail"
             /\ UNCHANGED MapBuildCancelled]_vars

\* C7 witness: the cancel was requested in AsynchronousBuilding and the
\* system is still alive in that stage.
C7_Witness ==
    /\ lastCall = "CancelLightingBuild"
    /\ ~NoSystem
    /\ CurrentBuildStage = "AsynchronousBuilding"
    /\ MapBuildCancelled
    /\ ~IsValid(LightBuildNotification)

\* C8: while the remote tasks have not finished, a tick in
\* AsynchronousBuilding leaves the stage there; once the build was cancelled
\* the next tick tears the system down.
C8_PollNeverFinished ==
    [][(TickStep /\ ~NoSystem /\ CurrentBuildStage = "AsynchronousBuilding"
            /\ ~lastIn'.bTasksFinished) =>
        IF MapBuildCancelled
        THEN TornDown
        ELSE SameSystem /\ CurrentBuildStage' = "AsynchronousBuilding"]_vars

\* C8 witness: a cancelled build whose tasks had not finished was torn down
\* by a tick.
C8_Witness ==
    /\ lastCall = "UpdateBuildLighting"
    /\ ~lastIn.bTasksFinished
    /\ cancelStage = "AsynchronousBuilding"
    /\ NoSystem
    /\ LightBuildNotification.text = "Lighting build canceled."

\* The finalization of the step succeeded: the remote run completed, the
\* job closed and the build was not cancelled.
FinishSucceeds == lastIn'.bCompleteRun /\ lastIn'.bCloseJob /\ ~MapBuildCancelled

\* C9, the parts that do not depend on the finalization's outcome: with the
\* gate false the tick in AutoApplyingImport moves to WaitingForImport and
\* keeps the system; an explicit apply runs finalization and the commit
\* sequence and leaves no system; an explicit discard leaves no system and
\* runs neither.
C9_GateAndDiscard ==
    /\ (TickStep /\ CurrentBuildStage = "AutoApplyingImport"
            /\ ~CanAutoApplyLighting(lastIn')) =>
        /\ CurrentBuildStage' = "WaitingForImport"
        /\ SameSystem /\ ~NoSystem
        /\ LightBuildNotification'.kind = "BuildDone"
    /\ (ApplyStep /\ CurrentBuildStage = "WaitingForImport") =>
        /\ numFinishRuns' = numFinishRuns + 1
        /\ numWorldCommits' = numWorldCommits + 1
        /\ TornDown
    /\ (DiscardStep /\ CurrentBuildStage = "WaitingForImport") =>
        /\ TornDown
        /\ UNCHANGED <<numFinishRuns, numInvalidations, numWorldCommits,
                       sceneLighting, closeJobCalls, swarmJob>>
        /\ ~IsValid(LightBuildNotification')

\* C9 (as claimed): ... and every explicit apply commits the results.
C9_Original ==
    [][/\ C9_GateAndDiscard
       /\ (ApplyStep /\ CurrentBuildStage = "WaitingForImport") =>
            sceneLighting' = "Built"]_vars

\* C9 (amended): ... and an explicit apply commits the results when the
\* finalization succeeds; when it does not (CompleteRun or CloseJob fails,
\* or the build was cancelled) the results are dropped and the failure path
\* runs.
C9_WaitingForImport ==
    [][/\ C9_GateAndDiscard
       /\ (ApplyStep /\ CurrentBuildStage = "WaitingForImport") =>
            IF FinishSucceeds
            THEN sceneLighting' = "Built" /\ ~IsValid(LightBuildNotification')
            ELSE sceneLighting' = (IF Options.bOnlyBuildVisibility
                                   THEN sceneLighting ELSE "Invalidated")]_vars

\* C9 witness: the results of a build that waited for the user were applied.
C9_Witness ==
    /\ lastCall = "ProcessLightingData(false)"
    /\ NoSystem
    /\ numFinishRuns = 1
    /\ sceneLighting = "Built"
    /\ lastIn.bCompleteRun /\ lastIn.bCloseJob

\* The six conditions of the automatic-apply gate.
AllSixHold(in) ==
    /\ in.bAutoApplyLightingEnable
    /\ ~in.bAnyMenusVisible
    /\ ~in.bSlowTask
    /\ ~in.bInterpEditMode
    /\ ~in.bPlayWorldValid
    /\ in.bHasGameOrProjectLoaded

\* C10: the tick in AutoApplyingImport applies automatically only when all
\* six conditions hold; with any one of them false the build goes to manual
\* confirmation (WaitingForImport, the system kept, nothing finalized).
C10_AutoApplyGate ==
    [][(TickStep /\ CurrentBuildStage = "AutoApplyingImport") =>
        /\ CanAutoApplyLighting(lastIn') => AllSixHold(lastIn')
        /\ numFinishRuns' # numFinishRuns => AllSixHold(lastIn')
        /\ ~AllSixHold(lastIn') =>
            /\ CurrentBuildStage' = "WaitingForImport"
            /\ SameSystem
            /\ UNCHANGED <<numFinishRuns, numWorldCommits, sceneLighting>>]_vars

\* C10 witness: only the slow-task condition failed and the build waits for
\* the user.
C10_Witness ==
    /\ lastCall = "UpdateBuildLighting"
    /\ CurrentBuildStage = "WaitingForImport"
    /\ lastIn.bSlowTask
    /\ AllSixHold([lastIn EXCEPT !.bSlowTask = FALSE])
    /\ ~lastIn.bIsDemoMode

\* ------------------------------------------------------------------ outcome notifications

\* C11 (as claimed): once a build that was started is torn down, exactly one
\* outcome notification (build-done, failure or cancellation) was shown for
\* it.
C11_ExactlyOneOutcomeNotification ==
    (numCreated > 0 /\ NoSystem) => outcomeNotifications = 1

\* The build ended because the user cancelled it.
EndedByCancel == NoSystem /\ cancelStage # "None"

\* C12 (as claimed): a build that ended because the user cancelled it shows
\* "canceled" messaging and no "failed" messaging, neither the "Lighting
\* build failed." notification nor the "The lighting build failed!" dialog.
C12_CancelNeverShowsFailed ==
    EndedByCancel =>
        /\ LightBuildNotification.text # "Lighting build failed."
        /\ "The lighting build failed!" \notin Dialogs

\* The scene as the build request found it.
SceneUnchanged ==
    UNCHANGED <<VisibilityId, ModelVisibilityId, generatedAreaLights,
                bStaticLightingBuildEnqueued, levelDirty, CachedMappings,
                NumIncompleteNodeGroups>>

\* The request of the step tried to connect to the remote service and the
\* connection is not valid.
ConnectFails ==
    /\ RequestStep /\ NoSystem
    /\ ~lastIn'.bForceNoPrecomputedLighting
    /\ ~(lastIn'.opts.bOnlyBuildVisibility /\ ~lastIn'.bPrecomputeVisibility)
    /\ ~lastIn'.bSwarmConnectionValid

\* C13 (as claimed): when the connection to the remote service is invalid
\* the build is torn down and the scene is as it was before the request:
\* visibility ids, generated area lights, enqueued-for-rebuild flags, the
\* level's dirty mark and the BSP model's cached mappings.
C13_ConnectFailureLeavesScene ==
    [][ConnectFails => (TornDown /\ SceneUnchanged)]_vars

\* C14 (as claimed): a finalization that ends unsuccessfully (CompleteRun or
\* CloseJob failed, or the build was cancelled) leaves the lighting of the
\* scene as it was: nothing invalidated, the world's components not cleared
\* and rebuilt, no BSP surfaces committed.
C14_FailedFinishLeavesLighting ==
    [][(numFinishRuns' = numFinishRuns + 1 /\ ~FinishSucceeds) =>
        UNCHANGED <<sceneLighting, numInvalidations, numWorldCommits>>]_vars

\* ------------------------------------------------------------------ deterministic indices

\* The mappings flagged for rebuild, by their position in Mappings.
RebuiltMappings == {i \in 1 .. Len(Mappings) : Mappings[i].bProcessMapping}

\* The deterministic indices that meshes carry.
AssignedGuids == {Meshes[m].Guid : m \in 1 .. Len(Meshes)} \ {INDEX_NONE}

\* C15: after the gather and the assignment of a build that passed startup
\* (sorting on or off), the deterministic indices assigned are exactly
\* 0 .. k-1 for the k mappings flagged for rebuild: the mesh of each of them
\* carries one, no two of them the same, and no other mesh carries any.
C15_DenseDeterministicIds ==
    ~NoSystem =>
        LET k == Cardinality(RebuiltMappings)
        IN /\ DeterministicIndex = k
           /\ {Meshes[Mappings[i].Mesh].Guid : i \in RebuiltMappings} = 0 .. k - 1
           /\ \A i, j \in RebuiltMappings :
                Meshes[Mappings[i].Mesh].Guid = Meshes[Mappings[j].Mesh].Guid => i = j
           /\ AssignedGuids = 0 .. k - 1

\* C15 witness: a sorted build of primitives and BSP in which some mappings
\* are flagged for rebuild and some are not.
C15_Witness ==
    /\ ~NoSystem
    /\ bSortMappings
    /\ Cardinality(RebuiltMappings) >= 2
    /\ Cardinality(RebuiltMappings) < Len(Mappings)
    /\ \E m \in 1 .. Len(Meshes) : Meshes[m].Component[1] = "Model"
    /\ \E m \in 1 .. Len(Meshes) : Meshes[m].Component[1] = "Primitive"

\* C16: a build with sorting on, requested on the level and with the options
\* of the build that passed startup before it, assigns to every mesh the
\* GUID it had in that build.
C16_SameGuidsOnRerun ==
    [][(/\ lastCall' = "BuildLighting"
        /\ numCreated' # numCreated
        /\ StaticLightingSystem' # NULL
        /\ lastGather.valid
        /\ bSortMappings
        /\ Options' = lastGather.opts)
       => GuidsOf(Meshes') = lastGather.guids]_vars

\* C16 witness: the second run of a sorted build in which two mappings
\* flagged for rebuild have the same texel count.
C16_Witness ==
    /\ numCreated = 2
    /\ ~NoSystem
    /\ bSortMappings
    /\ lastGather.valid
    /\ lastGather.guids = GuidsOf(Meshes)
    /\ \E i, j \in RebuiltMappings :
        i # j /\ Mappings[i].NumTexels = Mappings[j].NumTexels

\* C17: after the gather of a build that passed startup (the sorted
\* mappings moved into Mappings), there are as many meshes as mappings and
\* every mapping has its own mesh.
C17_MeshesMatchMappings ==
    ~NoSystem =>
        /\ Len(Meshes) = Len(Mappings)
        /\ UnSortedMappings = <<>>
        /\ {Mappings[i].Mesh : i \in 1 .. Len(Mappings)} = 1 .. Len(Meshes)

\* C17 witness: a sorted build with a primitive of two meshes and a BSP
\* node group.
C17_Witness ==
    /\ ~NoSystem
    /\ bSortMappings
    /\ \E a \in Actors : Len(PrimitiveTexels[a]) = 2
    /\ \E m \in 1 .. Len(Meshes) : Meshes[m].Component[1] = "Model"
    /\ Len(Meshes) >= 3
    /\ Len(Mappings) = Len(Meshes)

\* ------------------------------------------------------------------ empty selection

\* Nothing is selected: no actor, and no surface of a node group.
NothingSelected == Selected = {} /\ NodeGroupsToBuild(State, 1) = <<>>

\* The step is the request of a selection-scoped build with nothing selected.
EmptySelectionRequest ==
    /\ RequestStep /\ NoSystem
    /\ lastIn'.opts.bOnlyBuildSelected
    /\ NothingSelected

\* What startup needs to succeed, whatever was gathered.
StartupSucceeds(in) ==
    /\ ~in.bForceNoPrecomputedLighting
    /\ ~(in.opts.bOnlyBuildVisibility /\ ~in.bPrecomputeVisibility)
    /\ in.bSwarmConnectionValid
    /\ ~MapBuildCancelled
    /\ in.bOpenJob

\* The meshes (and mappings) of all the primitives of the level.
PrimitiveMeshes ==
    UNION { { <<a, i>> : i \in 1 .. Len(PrimitiveTexels[a]) } : a \in Actors }

C19_Original ==
    [][(StaticLightingSystem' # NULL /\ CurrentBuildStage' # CurrentBuildStage)
        => TickStep]_vars

\* C19 (amended): between the build request that creates a system and the
\* teardown of the system its stage changes only inside a tick: a cancel, a
\* discard, an apply or a rejected request leaves the stage of a system
\* that stays alive as it is. The build request that creates the system
\* takes it from NotRunning to AmortizedExport before it returns, and an
\* apply enters finalization (which sets Import) and ends in teardown.
C19_StageChangesInTick ==
    [][/\ (StaticLightingSystem' # NULL /\ CurrentBuildStage' # CurrentBuildStage) =>
            \/ TickStep
            \/ /\ RequestStep /\ NoSystem
               /\ CurrentBuildStage = "NotRunning"
               /\ CurrentBuildStage' = "AmortizedExport"
       /\ (CancelStep \/ DiscardStep \/ ApplyStep \/ (RequestStep /\ ~NoSystem)) =>
            (TornDown \/ (SameSystem /\ UNCHANGED CurrentBuildStage))
       /\ ApplyStep => (numFinishRuns' = numFinishRuns + 1 /\ TornDown)]_vars

\* C19 witness: the build request returned with the new system in
\* AmortizedExport.
C19_Witness ==
    /\ lastCall = "BuildLighting"
    /\ alreadyRunningNotices = 0
    /\ ~NoSystem
    /\ CurrentBuildStage = "AmortizedExport"

\* Everything but the record of the last call.
programVars ==
    <<StaticLightingSystem, liveSystems, numCreated, CurrentBuildStage, Options,
      Lights, Meshes, Mappings, DeterministicIndex, NextVisibilityId,
      LightmassProcessor, LightBuildNotification, MapBuildCancelled, swarmJob,
      closeJobCalls, sceneLighting, numInvalidations, numWorldCommits,
      tempElements, numFinishRuns, alreadyRunningNotices, buildStartedBroadcasts,
      wroteAfterDelete, cancelStage, UnSortedMappings, bBuildCanceled,
      VisibilityId, ModelVisibilityId, bStaticLightingBuildEnqueued, levelDirty,
      generatedAreaLights, CachedMappings, NumIncompleteNodeGroups,
          finishLog, lightingCacheInvalidated, bCrashTrackingEnabled,
          bCrashTrackerOriginallyEnabled, outcomeNotifications, Dialogs,
      bNothingSelectedError, SkippedLevels, sceneInputs>>

\* C20: a tick takes the state machine at most one step: after it the
\* system is torn down, or it is the same system in the same stage or in the
\* next stage of the sequence. The tick on which the export completes only
\* moves AmortizedExport to SwarmKickoff, a tick on which it does not
\* complete leaves AmortizedExport, and a tick without a system changes
\* nothing.
C20_OneStepPerTick ==
    [][TickStep =>
        IF NoSystem
        THEN UNCHANGED programVars
        ELSE /\ \/ TornDown
                \/ /\ SameSystem
                   /\ \/ CurrentBuildStage' = CurrentBuildStage
                      \/ StageRank(CurrentBuildStage') = StageRank(CurrentBuildStage) + 1
             /\ CurrentBuildStage = "AmortizedExport" =>
                /\ SameSystem
                /\ CurrentBuildStage' =
                      IF lastIn'.bExportCompleted THEN "SwarmKickoff"
                      ELSE "AmortizedExport"]_vars

\* C20 witness: the tick on which the export completed left the system in
\* SwarmKickoff.
C20_Witness ==
    /\ lastCall = "UpdateBuildLighting"
    /\ lastIn.bExportCompleted
    /\ ~NoSystem
    /\ CurrentBuildStage = "SwarmKickoff"

\* ------------------------------------------------------------------ startup outcome

\* The request of the step reached the remote client (lighting is not forced
\* off and a visibility-only build has visibility to compute).
ReachesProcessor ==
    /\ RequestStep /\ NoSystem
    /\ ~lastIn'.bForceNoPrecomputedLighting
    /\ ~(lastIn'.opts.bOnlyBuildVisibility /\ ~lastIn'.bPrecomputeVisibility)

\* The request of the step reported a failure: a failure notification or a
\* modal dialog was shown for the system it created.
FailureReported == outcomeNotifications' > 0 \/ Dialogs' # {}

\* C21 (as claimed): a build request leaves the system alive, in
\* AmortizedExport, only if the gather and the assignment ran and the remote
\* client connected and opened its job; when the connection is invalid, the
\* job does not open or the map build is already cancelled, the system is
\* destroyed, no progress notification is shown and the failure is reported.
C21_StartupOutcome ==
    [][/\ (RequestStep /\ NoSystem /\ StaticLightingSystem' # NULL) =>
            /\ CurrentBuildStage' = "AmortizedExport"
            /\ Len(Meshes') = Len(Mappings') /\ UnSortedMappings' = <<>>
            /\ lastIn'.bSwarmConnectionValid /\ lastIn'.bOpenJob
            /\ swarmJob' = "Open"
            /\ ~MapBuildCancelled
       /\ (ReachesProcessor /\ (\/ ~lastIn'.bSwarmConnectionValid
                                 \/ ~lastIn'.bOpenJob
                                 \/ MapBuildCancelled)) =>
            /\ TornDown
            /\ LightBuildNotification'.kind # "Progress"
            /\ FailureReported]_vars

\* ------------------------------------------------------------------ kickoff and poll

\* C22: a tick in SwarmKickoff moves the system to AsynchronousBuilding if
\* and only if BeginRun succeeds; when it fails the system is destroyed in
\* that tick and a failure notification is raised. AsynchronousBuilding is
\* entered in no other way.
C22_KickoffOutcome ==
    [][/\ (TickStep /\ ~NoSystem /\ CurrentBuildStage = "SwarmKickoff") =>
            IF lastIn'.bBeginRun
            THEN SameSystem /\ CurrentBuildStage' = "AsynchronousBuilding"
            ELSE /\ TornDown
                 /\ LightBuildNotification'.kind = "Fail"
                 /\ LightBuildNotification'.state = "CS_Fail"
                 /\ outcomeNotifications' = outcomeNotifications + 1
       /\ (CurrentBuildStage' = "AsynchronousBuilding"
                /\ CurrentBuildStage # "AsynchronousBuilding") =>
            /\ TickStep /\ CurrentBuildStage = "SwarmKickoff"
            /\ lastIn'.bBeginRun]_vars

\* C22 witness: the kickoff failed and the tick tore the system down.
C22_Witness ==
    /\ lastCall = "UpdateBuildLighting"
    /\ NoSystem
    /\ LightBuildNotification.text = "Lighting build failed. Swarm failed to kick off."
    /\ swarmJob = "Open"

\* The poll of the tick of the step reports finished / the remote
\* computation completed successfully.
PollFinished == ProcessorUpdate(State, lastIn')
PollSucceeded == IsProcessingCompletedSuccessfully(State, lastIn')

\* C23: a tick in AsynchronousBuilding leaves the stage as it is while the
\* poll reports not finished, moves to AutoApplyingImport when the poll
\* reports finished and the remote computation completed successfully, and
\* tears the system down with a failure notification, nothing finalized or
\* applied, when the poll reports finished and the computation failed.
\* AutoApplyingImport is entered in no other way.
C23_PollOutcome ==
    [][/\ (TickStep /\ ~NoSystem /\ CurrentBuildStage = "AsynchronousBuilding") =>
            IF ~PollFinished
            THEN SameSystem /\ UNCHANGED CurrentBuildStage
            ELSE IF PollSucceeded
                 THEN SameSystem /\ CurrentBuildStage' = "AutoApplyingImport"
                 ELSE /\ TornDown
                      /\ LightBuildNotification'.kind = "Fail"
                      /\ UNCHANGED <<numFinishRuns, numInvalidations,
                                     numWorldCommits, sceneLighting, tempElements>>
       /\ (CurrentBuildStage' = "AutoApplyingImport"
                /\ CurrentBuildStage # "AutoApplyingImport") =>
            /\ TickStep /\ CurrentBuildStage = "AsynchronousBuilding"
            /\ PollFinished /\ PollSucceeded]_vars

\* C23 witness: the remote tasks finished, one of them failed, and the tick
\* tore the build down without applying anything.
C23_Witness ==
    /\ lastCall = "UpdateBuildLighting"
    /\ lastIn.bTasksFinished /\ ~lastIn.bTasksSucceeded
    /\ NoSystem
    /\ ~MapBuildCancelled
    /\ LightBuildNotification.text = "Lighting build failed."
    /\ numFinishRuns = 0
    /\ sceneLighting = "Prior"

\* C24 (as claimed): no call writes a field of a FStaticLightingSystem after
\* the system was deleted.
C24_NoAccessAfterDestroy == ~wroteAfterDelete

\* ------------------------------------------------------------------ selected surfaces

\* The surfaces the expansion ended with.
SelectedSurfaces ==
    {SelectedSurfaceIndices[i] : i \in 1 .. Len(SelectedSurfaceIndices)}

\* C25: the set of selected surfaces the expansion ends with contains every
\* surface that is selected or owned by a selected brush, and it is closed
\* under shared components at any depth: when the surface of a node is in
\* the set, so is the surface of every node of that node's component.
C25_ExpansionIsFixedPoint ==
    lastCall = "GatherStaticLightingInfo" =>
        /\ \A s \in Surfs : SurfaceSelected(Model, SelectedBrushes, s) =>
                s \in SelectedSurfaces
        /\ \A n, m \in 1 .. Len(Model.Nodes) :
                (/\ Model.Nodes[n].iSurf \in SelectedSurfaces
                 /\ Model.Nodes[m].ComponentIndex = Model.Nodes[n].ComponentIndex)
                => Model.Nodes[m].iSurf \in SelectedSurfaces

\* C25 witness: only the first surface is selected and the expansion
\* reached the last one across three components, each sharing one surface
\* with the next.
C25_Witness ==
    /\ lastCall = "GatherStaticLightingInfo"
    /\ SelectedBrushes = {}
    /\ \A s \in Surfs : Model.Surfs[s].bPF_Selected <=> s = 1
    /\ {<<Model.Nodes[n].iSurf, Model.Nodes[n].ComponentIndex>>
            : n \in 1 .. Len(Model.Nodes)}
         = {<<1, 1>>, <<2, 1>>, <<2, 2>>, <<3, 2>>, <<3, 3>>, <<4, 3>>}
    /\ SelectedSurfaces = {1, 2, 3, 4}
    /\ Len(SelectedModelComponents) = 3

\* ------------------------------------------------------------------ sort order

Excluded(l) == ~ShouldBuildLightingForLevel[l]

\* The gathered meshes of actor a's primitive / of the BSP, by position.
ActorMeshes(a) ==
    {m \in 1 .. Len(Meshes) : Meshes[m].Component = <<"Primitive", a>>}
ModelMeshes == {m \in 1 .. Len(Meshes) : Meshes[m].Component[1] = "Model"}

\* The mappings of a set of meshes, by position.
MappingsOf(meshes) == {i \in 1 .. Len(Mappings) : Mappings[i].Mesh \in meshes}

\* The levels named in the skipped-levels warning.
SkippedLevelSet == {SkippedLevels[i] : i \in 1 .. Len(SkippedLevels)}

BuildEligible(a) ==
    /\ ShouldBuildLightingForLevel[ActorLevel(a)]
    /\ ~Options.bOnlyBuildSelected \/ a \in Selected

ActorsWithId == {a \in Actors : VisibilityId[a] # INDEX_NONE}
ComponentsWithId == {c \in ModelComponents : ModelVisibilityId[c] # INDEX_NONE}

\* The visibility ids the components hold.
HeldVisibilityIds ==
    {VisibilityId[a] : a \in ActorsWithId}
        \cup {ModelVisibilityId[c] : c \in ComponentsWithId}

\* The visibility ids mesh m carries.
MeshVisibilityIds(m) ==
    {Meshes[m].VisibilityIds[i] : i \in 1 .. Len(Meshes[m].VisibilityIds)}

OwningComponents(m) ==
    LET Nodes == NodeGroups[Meshes[m].Component[2]].Nodes
    IN {Nodes[n] : n \in 1 .. Len(Nodes)}

\* C30: in both BSP build modes, whole-level and selection-scoped, every
\* model component that owns a node of a node group gathered as a mesh and
\* a mapping holds a visibility id after the gather, and the mesh's
\* visibility-id list contains the ids of those components.
C30_BSPVisibilityIds ==
    ~NoSystem =>
        \A m \in ModelMeshes :
            /\ MappingsOf({m}) # {}
            /\ \A c \in OwningComponents(m) :
                /\ ModelVisibilityId[c] # INDEX_NONE
                /\ ModelVisibilityId[c] \in MeshVisibilityIds(m)

\* ------------------------------------------------------------------ level dirty mark

\* The step changes the visibility id of a component of level l: of the
\* primitive of one of its actors or, for the persistent level, of a model
\* component.
VisibilityIdChanged(l) ==
    \/ \E a \in Actors : ActorLevel(a) = l /\ VisibilityId'[a] # VisibilityId[a]
    \/ /\ l = PersistentLevel
       /\ \E c \in ModelComponents : ModelVisibilityId'[c] # ModelVisibilityId[c]

\* C31: a build marks a level dirty only when the world uses precomputed
\* visibility and the build changed the visibility id of a component of
\* that level: a component ends the gather with an id that differs from the
\* id it held before the build. A level whose components keep their ids,
\* and every level of a world without precomputed visibility, is not marked.
C31_DirtyOnlyOnChange ==
    [][\A l \in Levels :
        (levelDirty'[l] /\ ~levelDirty[l]) =>
            (lastIn'.bPrecomputeVisibility /\ VisibilityIdChanged(l))]_vars

\* ------------------------------------------------------------------ BSP node groups

\* The live build gathers the BSP of the whole level, not of a selection.
WholeLevelBSP == ~Options.bOnlyBuildSelected \/ Options.bOnlyBuildVisibility

\* The node groups the live build processes: none of an excluded level,
\* all in whole-level mode, those on a selected surface in selection mode.
ProcessedNodeGroups ==
    {g \in 1 .. NumNodeGroups :
        /\ ShouldBuildLightingForLevel[PersistentLevel]
        /\ WholeLevelBSP \/ NodeGroups[g].bSelected}

\* The live build ran one of the two AddBSPStaticLightingInfo.
BSPPassRan ==
    /\ ShouldBuildLightingForLevel[PersistentLevel]
    /\ WholeLevelBSP \/ \E g \in ProcessedNodeGroups : Len(NodeGroups[g].Nodes) > 0

\* The gathered meshes of node group g, by position.
NodeGroupMeshes(g) ==
    {m \in 1 .. Len(Meshes) : Meshes[m].Component = <<"Model", g>>}

\* C32: every processed node group with at least one node yields exactly
\* one mesh, one mapping flagged for rebuild and one entry of the model's
\* cached mappings; a group without nodes, and in selection mode a group
\* outside the selected set, yields none. The BSP pass empties the cached
\* mappings first, so they are exactly the emitted groups, and
\* NumIncompleteNodeGroups is the number of cached mappings.
C32_OnePairPerNodeGroup ==
    ~NoSystem =>
        /\ NumIncompleteNodeGroups = Len(CachedMappings)
        /\ \A g \in 1 .. NumNodeGroups :
            LET bEmitted == g \in ProcessedNodeGroups /\ Len(NodeGroups[g].Nodes) > 0
                n == IF bEmitted THEN 1 ELSE 0
            IN /\ Cardinality(NodeGroupMeshes(g)) = n
               /\ Cardinality(MappingsOf(NodeGroupMeshes(g))) = n
               /\ \A i \in MappingsOf(NodeGroupMeshes(g)) : Mappings[i].bProcessMapping
               /\ BSPPassRan =>
                    Cardinality({i \in 1 .. Len(CachedMappings) : CachedMappings[i] = g}) = n

\* C32 witness: the second build of a level with two node groups that have
\* nodes is selection-scoped: it emitted only the group on the selected
\* surface, and that group is the one cached mapping.
C32_Witness ==
    /\ ~NoSystem
    /\ ~WholeLevelBSP
    /\ numCreated = 2
    /\ Cardinality({g \in 1 .. NumNodeGroups : Len(NodeGroups[g].Nodes) > 0}) = 2
    /\ Len(CachedMappings) = 1
    /\ NumIncompleteNodeGroups = 1
    /\ Cardinality(ModelMeshes) = 1

\* ------------------------------------------------------------------ order of finalization

\* The step runs FinishLightmassProcess.
FinishStep == numFinishRuns' = numFinishRuns + 1

\* The calls of one finalization, in order.
FinishCalls(bCompleteRun, bOnlyBuildVisibility) ==
    <<"InvalidateStaticLighting", "CompleteRun">>
        \o (IF bCompleteRun THEN <<"CompleteDeterministicMappings">> ELSE <<>>)
        \o (IF bCompleteRun /\ ~bOnlyBuildVisibility
            THEN <<"ReassignStationaryLightChannels">> ELSE <<>>)
        \o <<"EncodeTextures", "CloseJob", "MergeStatistics",
             "ApplyNewLightingData", "PostInvalidateStaticLighting">>

\* C33: finalization invalidates the prior lighting, completes the remote
\* run, completes the deterministic mapping import and reassigns the
\* stationary-light channels (both only when the run completed), encodes
\* the textures, closes the remote job, merges the statistics, applies the
\* new lighting data and runs the post-invalidation pass, in this order. The
\* job is closed once, after the import and before the scene commit, and
\* the stage is Import at every one of these calls.
C33_FinishOrder ==
    [][FinishStep =>
        /\ [i \in 1 .. Len(finishLog') |-> finishLog'[i].Callee]
                = FinishCalls(lastIn'.bCompleteRun, Options.bOnlyBuildVisibility)
        /\ \A i \in 1 .. Len(finishLog') : finishLog'[i].Stage = "Import"
        /\ closeJobCalls' = closeJobCalls + 1
        /\ numWorldCommits' = numWorldCommits + 1]_vars

\* C33 witness: a finalization whose run completed went through all nine
\* calls and the scene holds the built lighting.
C33_Witness ==
    /\ numFinishRuns > 0
    /\ Len(finishLog) = 9
    /\ finishLog[3].Callee = "CompleteDeterministicMappings"
    /\ finishLog[6].Callee = "CloseJob"
    /\ sceneLighting = "Built"

\* ------------------------------------------------------------------ deterministic-ID check

\* The mappings the check of BeginLightmassProcess (lines 527-543) logs a
\* warning for: those flagged for rebuild whose mesh has a GUID that is no
\* index below the number of mappings.
DeterministicLightingErrors ==
    {CheckMapIdx \in 1 .. Len(Mappings) :
        /\ Mappings[CheckMapIdx].bProcessMapping
        /\ \/ Meshes[Mappings[CheckMapIdx].Mesh].Guid < 0
           \/ Meshes[Mappings[CheckMapIdx].Mesh].Guid >= Len(Mappings)}

\* ------------------------------------------------------------------ post-invalidation

\* C35: the post-invalidation pass at the end of a finalization invalidates
\* the lighting cache of the registered primitive of exactly the actors
\* that are build-eligible and whose primitive is not enqueued for rebuild,
\* in a build that is not visibility-only. A primitive that is enqueued, a
\* primitive of an actor that is not eligible and every primitive in a
\* visibility-only build are left untouched.
C35_PostInvalidation ==
    [][FinishStep =>
        \A a \in Actors :
            a \in lightingCacheInvalidated' <=>
                /\ BuildEligible(a)
                /\ ~Options.bOnlyBuildVisibility
                /\ a \notin bStaticLightingBuildEnqueued]_vars

\* C35 witness: a finalization after the selection grew during the build:
\* the pass invalidated the primitive of an actor selected since, and left
\* alone a selected primitive that was enqueued for rebuild and a primitive
\* that is not selected.
C35_Witness ==
    /\ numFinishRuns > 0
    /\ lastCall = "UpdateBuildLighting" \/ lastCall = "ProcessLightingData(false)"
    /\ lightingCacheInvalidated # {}
    /\ \E a \in Selected :
        a \in bStaticLightingBuildEnqueued /\ a \notin lightingCacheInvalidated

\* ------------------------------------------------------------------ waiting for the user

\* The build waits for the user to apply or discard its results.
WaitingForImport == ~NoSystem /\ CurrentBuildStage = "WaitingForImport"

\* C36: a tick of a build in WaitingForImport changes nothing of it: the
\* stage stays WaitingForImport, the system stays, no finalization runs,
\* the scene and the build-done notification are as before, also when the
\* automatic-apply gate is open at that tick. Only an explicit apply, a
\* discard or a cancel takes the build out of WaitingForImport.
C36_WaitingIsStable ==
    /\ [][(TickStep /\ WaitingForImport) =>
            /\ SameSystem
            /\ CurrentBuildStage' = "WaitingForImport"
            /\ UNCHANGED <<numFinishRuns, numWorldCommits, numInvalidations,
                           sceneLighting, swarmJob, LightBuildNotification>>]_vars
    /\ [][(WaitingForImport /\ ~WaitingForImport') =>
            (ApplyStep \/ DiscardStep \/ CancelStep)]_vars

\* C36 witness: the build is still waiting after a tick at which the
\* automatic-apply gate was open.
C36_Witness ==
    /\ WaitingForImport
    /\ lastCall = "UpdateBuildLighting"
    /\ CanAutoApplyLighting(lastIn)
    /\ LightBuildNotification.kind = "BuildDone"

\* ------------------------------------------------------------------ build after a cancel

\* The remote service accepts the build of a request with these inputs:
\* precomputed lighting is allowed, a visibility-only build has precomputed
\* visibility on, the connection is valid and the job opens.
ServiceReachable(in) ==
    /\ ~in.bForceNoPrecomputedLighting
    /\ ~(in.opts.bOnlyBuildVisibility /\ ~in.bPrecomputeVisibility)
    /\ in.bSwarmConnectionValid
    /\ in.bOpenJob

\* C37: a cancellation does not leak into the next build: once a build
\* that was cancelled during AsynchronousBuilding is torn down, a build
\* request on a reachable service, with precomputed lighting allowed, is
\* accepted and reaches AmortizedExport: the map-build-cancelled flag the
\* cancel set is not seen set when the new build initiates its remote job.
C37_CancelDoesNotLeak ==
    [][(/\ RequestStep
        /\ NoSystem
        /\ cancelStage = "AsynchronousBuilding"
        /\ ServiceReachable(lastIn'))
            => (~NoSystem' /\ CurrentBuildStage' = "AmortizedExport")]_vars

\* ------------------------------------------------------------------ precomputed lighting forced off

\* The step is an accepted build request in a world where precomputed
\* lighting is forced off (world setting, or static lighting disallowed).
ForcedOffRequest ==
    RequestStep /\ NoSystem /\ lastIn'.bForceNoPrecomputedLighting

\* C38: with precomputed lighting forced off, a build request never
\* contacts the remote service and never reaches AmortizedExport: inside
\* the request it invalidates the static lighting and applies the empty
\* lighting data (one scene commit, no imported results), it creates a
\* system and destroys it before the request returns, and it shows no
\* progress notification, no outcome notification and no dialog. (The
\* counters are those of the build the request created.)
C38_ForcedOffBuild ==
    [][ForcedOffRequest =>
        /\ numCreated' = numCreated + 1
        /\ TornDown
        /\ numInvalidations' = 1
        /\ numWorldCommits' = 1
        /\ sceneLighting' = IF lastIn'.opts.bOnlyBuildVisibility
                            THEN sceneLighting ELSE "Invalidated"
        /\ ~tempElements'
        /\ LightmassProcessor' = NULL
        /\ swarmJob' = "NoJob"
        /\ closeJobCalls' = 0
        /\ numFinishRuns' = 0
        /\ outcomeNotifications' = 0
        /\ Dialogs' = {}
        /\ UNCHANGED LightBuildNotification]_vars

\* C38 witness: the first request was made with precomputed lighting forced
\* off: the system it created is gone, the prior lighting is invalidated
\* and the scene was committed once.
C38_Witness ==
    /\ lastCall = "BuildLighting"
    /\ lastIn.bForceNoPrecomputedLighting
    /\ lastIn.bSwarmConnectionValid /\ lastIn.bOpenJob
    /\ buildStartedBroadcasts = 1
    /\ numCreated = 1
    /\ NoSystem
    /\ sceneLighting = "Invalidated"
    /\ numWorldCommits = 1

\* ------------------------------------------------------------------ build-started event

\* C39: the build-started event (OnLightingBuildStarted) is broadcast only
\* for a build request that is accepted and creates a system; a request
\* rejected because a build is already running broadcasts no build-started
\* event (and closes no texture editor, which the same lines of
\* UEditorEngine::BuildLighting do before the broadcast).
C39_StartedOnlyWhenAccepted ==
    [][buildStartedBroadcasts' # buildStartedBroadcasts =>
            (NoSystem /\ numCreated' = numCreated + 1)]_vars

\* ------------------------------------------------------------------ crash tracker runs
\* The runs of the build state machine from either state of the crash
\* tracker module: it is capturing when the editor requests its first
\* build, or it is not.
CrashTrackerInit ==
    /\ InitProgram
    /\ NoSelectionRun
    /\ bCrashTrackingEnabled \in BOOLEAN
    /\ ShouldBuildLightingForLevel = [l \in Levels |-> TRUE]
    /\ bSortMappings = TRUE
    /\ PrimitiveTexels = [a \in Actors |-> <<1>>]
    /\ \E bSelection \in BOOLEAN :
        /\ Selected = IF bSelection THEN {1} ELSE {}
        /\ NodeGroups = [g \in 1 .. NumNodeGroups |->
                            NodeGroup(<<g>>, 1, bSelection /\ g = 1)]

CrashTrackerSpec == CrashTrackerInit /\ [][Next]_vars

\* The system holds a capture it stopped.
HoldsCrashTracker == bCrashTrackerOriginallyEnabled

\* C40: crash tracking is restored after every build. A step on which the
\* system starts to hold the capture is the opening of the export: the
\* module was capturing, it no longer is, and the stage is AmortizedExport.
\* While the system holds it the module stays off, and the step that ends
\* the hold turns it on again: the tick on which the export completes, or
\* the destruction of the system. A step on which the system holds nothing,
\* before and after, leaves the module as it was, so a module that was not
\* capturing is never turned on.
C40_CrashTrackingRestored ==
    [][/\ (~HoldsCrashTracker /\ HoldsCrashTracker') =>
            /\ bCrashTrackingEnabled /\ ~bCrashTrackingEnabled'
            /\ lastCall' = "BuildLighting"
            /\ CurrentBuildStage' = "AmortizedExport"
       /\ (HoldsCrashTracker /\ HoldsCrashTracker') =>
            /\ ~bCrashTrackingEnabled /\ ~bCrashTrackingEnabled'
            /\ StaticLightingSystem' = StaticLightingSystem
            /\ CurrentBuildStage = "AmortizedExport"
            /\ CurrentBuildStage' = "AmortizedExport"
       /\ (HoldsCrashTracker /\ ~HoldsCrashTracker') =>
            /\ ~bCrashTrackingEnabled /\ bCrashTrackingEnabled'
            /\ CurrentBuildStage = "AmortizedExport"
            /\ \/ /\ lastCall' = "UpdateBuildLighting" /\ lastIn'.bExportCompleted
                  /\ StaticLightingSystem' = StaticLightingSystem
                  /\ CurrentBuildStage' = "SwarmKickoff"
               \/ StaticLightingSystem' = NULL
       /\ (~HoldsCrashTracker /\ ~HoldsCrashTracker') =>
            bCrashTrackingEnabled' = bCrashTrackingEnabled]_vars

\* A build was cancelled during its export and the capture it had stopped
\* runs again.
C40_Witness ==
    /\ lastCall = "CancelLightingBuild"
    /\ cancelStage = "AmortizedExport"
    /\ StaticLightingSystem = NULL
    /\ bCrashTrackingEnabled
    /\ ~bCrashTrackerOriginallyEnabled

====
